---- MODULE Spec2Model ----
(***************************************************************************)
(* A model of backend/server.py: the document store, the rate limiter,     *)
(* the token layer and the request handlers.                               *)
(*                                                                         *)
(* A handler is a small state machine over a request record p: every       *)
(* step is one store call together with the local code that follows it up  *)
(* to the next await.  Step runs one step, Run runs a handler to its       *)
(* response.  Specifications that serve one request at a time use Run;     *)
(* SpecConc interleaves the steps of concurrent requests.                   *)
(***************************************************************************)
EXTENDS Integers, Sequences, FiniteSets, Bags, TLC

\* ---------------------------------------------------------------- bounds
MaxUsers == 2
MaxWorkspaces == 3
MaxProjects == 2
MaxTasks == 2
MaxChildren == 1
MaxTime == 2
MaxDocs == 2
AuthDocs == 1
MaxAttempts == 2
MaxActs == 2
MaxFresh == 2
MaxTags == 2
PermDocs == 3
UpdateDocs == 4

FailDocs == 5

OrphanDocs == 5

NotifyDocs == 4

FrameDocs == 5

ViewDocs == 4

\* ------------------------------------------------- configuration (Config)
RATE_LIMIT_REQUESTS == 100
RATE_LIMIT_WINDOW == 60
LOGIN_RATE_LIMIT == 5
LOGIN_BLOCK_DURATION == 300

VARIABLES db, rl, now, resp, procs

vars == <<db, rl, now, resp, procs>>

\* ----------------------------------------------------------- input values
IPs == {"ip1", "ip2"}
Emails == {"a@x.com", "A@x.com", "b@x.com"}
Passwords == {"Secure123A", "Other456B"}
Roles == {"admin", "member", "viewer"}
Names == {"n1", "n2"}

\* str.lower() on the e-mail addresses of the model
lower(e) == IF e = "A@x.com" THEN "a@x.com" ELSE e

\* ------------------------------------------------------------ rate limiter
RateLimiterInit ==
  [requests |-> [i \in IPs |-> <<>>],
   login_attempts |-> [i \in IPs |-> <<>>],
   blocked_ips |-> [i \in {} |-> 0]]

_clean_old_requests(times, window, t) ==
  SelectSeq(times, LAMBDA req_time : t - req_time < window)

\* is_blocked answers and, for an expired block, deletes the entry
is_blocked(r, ip, t) ==
  IF ip \in DOMAIN r.blocked_ips
  THEN IF t < r.blocked_ips[ip]
       THEN [rl |-> r, ok |-> TRUE]
       ELSE [rl |-> [r EXCEPT !.blocked_ips =
                        [i \in (DOMAIN r.blocked_ips) \ {ip} |-> r.blocked_ips[i]]],
             ok |-> FALSE]
  ELSE [rl |-> r, ok |-> FALSE]

block_ip(r, ip, duration, t) ==
  [r EXCEPT !.blocked_ips =
     [i \in (DOMAIN r.blocked_ips) \cup {ip} |->
        IF i = ip THEN t + duration ELSE r.blocked_ips[i]]]

\* check_rate_limit that admits one request more than the limit
check_rate_limit_off_by_one(r, ip, t) ==
  LET b == is_blocked(r, ip, t)
      cleaned == [b.rl EXCEPT !.requests[ip] =
                    _clean_old_requests(b.rl.requests[ip], RATE_LIMIT_WINDOW, t)]
  IN IF b.ok THEN [rl |-> b.rl, ok |-> FALSE]
     ELSE IF Len(cleaned.requests[ip]) > RATE_LIMIT_REQUESTS
          THEN [rl |-> cleaned, ok |-> FALSE]
          ELSE [rl |-> [cleaned EXCEPT !.requests[ip] = Append(@, t)], ok |-> TRUE]

check_rate_limit(r, ip, t) ==
  LET b == is_blocked(r, ip, t)
      cleaned == [b.rl EXCEPT !.requests[ip] =
                    _clean_old_requests(b.rl.requests[ip], RATE_LIMIT_WINDOW, t)]
  IN IF b.ok THEN [rl |-> b.rl, ok |-> FALSE]
     ELSE IF Len(cleaned.requests[ip]) >= RATE_LIMIT_REQUESTS
          THEN [rl |-> cleaned, ok |-> FALSE]
          ELSE [rl |-> [cleaned EXCEPT !.requests[ip] = Append(@, t)], ok |-> TRUE]

\* check_login_limit that rejects without blocking the address
check_login_limit_no_block(r, ip, t) ==
  LET cleaned == [r EXCEPT !.login_attempts[ip] =
                    _clean_old_requests(r.login_attempts[ip], RATE_LIMIT_WINDOW, t)]
  IN IF Len(cleaned.login_attempts[ip]) >= LOGIN_RATE_LIMIT
     THEN [rl |-> cleaned, ok |-> FALSE]
     ELSE [rl |-> [cleaned EXCEPT !.login_attempts[ip] = Append(@, t)], ok |-> TRUE]

check_login_limit(r, ip, t) ==
  LET cleaned == [r EXCEPT !.login_attempts[ip] =
                    _clean_old_requests(r.login_attempts[ip], RATE_LIMIT_WINDOW, t)]
  IN IF Len(cleaned.login_attempts[ip]) >= LOGIN_RATE_LIMIT
     THEN [rl |-> block_ip(cleaned, ip, LOGIN_BLOCK_DURATION, t), ok |-> FALSE]
     ELSE [rl |-> [cleaned EXCEPT !.login_attempts[ip] = Append(@, t)], ok |-> TRUE]

\* ------------------------------------------------------------- auth utils
get_password_hash(password) == <<"bcrypt", password>>

\* a verification that compares the stored value with the password itself
verify_password_plain(plain_password, hashed_password) ==
  hashed_password = plain_password

verify_password(plain_password, hashed_password) ==
  hashed_password = <<"bcrypt", plain_password>>

\* A token is the payload that jwt.decode yields: sub and type, and valid
\* says whether the signature verifies and the token has not expired.
NoToken == [sub |-> 0, type |-> "none", valid |-> FALSE]

create_access_token(sub) == [sub |-> sub, type |-> "access", valid |-> TRUE]

create_refresh_token(sub) == [sub |-> sub, type |-> "refresh", valid |-> TRUE]

Tokens ==
  {NoToken} \cup [sub : 0..MaxUsers, type : {"access", "refresh"}, valid : BOOLEAN]

\* ---------------------------------------------------------- document store
Collections ==
  {"users", "workspaces", "projects", "tasks", "subtasks", "comments", "files",
   "notes", "requests", "tags", "favorites", "time_entries"}

DbInit ==
  [users |-> {}, workspaces |-> {}, projects |-> {}, tasks |-> {}, subtasks |-> {},
   comments |-> {}, files |-> {}, notes |-> {}, requests |-> {}, tags |-> {},
   favorites |-> {}, time_entries |-> {}, activities |-> {}, notifications |-> {},
   seq |-> [c \in Collections |-> 0]]

\* insert_one: the store generates an identifier that was never used before
NextId(d, c) == d.seq[c] + 1

Has(coll, id) == \E x \in coll : x.id = id

Get(coll, id) == CHOOSE x \in coll : x.id = id

InSeq(x, s) == \E i \in 1..Len(s) : s[i] = x

\* dict.get(key) on a member_roles map; "" stands for None
RoleOf(ws, uid) == IF uid \in DOMAIN ws.member_roles THEN ws.member_roles[uid] ELSE ""


NoWs == [id |-> 0, owner_id |-> 0, member_ids |-> <<>>,
         member_roles |-> [u \in {} |-> ""], name |-> ""]

NoDoc == [id |-> 0]

\* dict.pop(key): the document without the field; and the document
\* with the fields of extra added
Without(r, key) == [k \in DOMAIN r \ {key} |-> r[k]]

Merge(r, extra) ==
  [k \in DOMAIN r \cup DOMAIN extra |-> IF k \in DOMAIN extra THEN extra[k] ELSE r[k]]

\* ------------------------------------------------------- activity logging
\* log_activity that keeps only the record it writes
log_activity_keeps_last(d, user_id, action, entity_type, entity_id, workspace_id) ==
  [d EXCEPT !.activities =
     {[user_id |-> user_id, action |-> action, entity_type |-> entity_type,
       entity_id |-> entity_id, workspace_id |-> workspace_id]}]

log_activity(d, user_id, action, entity_type, entity_id, workspace_id) ==
  [d EXCEPT !.activities = @ \cup
     {[user_id |-> user_id, action |-> action, entity_type |-> entity_type,
       entity_id |-> entity_id, workspace_id |-> workspace_id]}]

\* ---------------------------------------------------- notification helper
send_notification(d, user_id, notification_type) ==
  [d EXCEPT !.notifications = @ \cup
     {[user_id |-> user_id, type |-> notification_type, read |-> FALSE]}]

\* ---------------------------------------------------------------- requests
\* The parameters a request can carry; a handler reads the ones it declares.
NoArgs ==
  [ip |-> "ip1", email |-> "", pw |-> "", ws |-> 0, id |-> 0, member |-> 0,
   project |-> 0, task |-> 0, request |-> 0,
   role |-> "", name |-> "", status |-> "", assigned |-> {}, rt |-> NoToken,
   fail |-> ""]

NoLoc == [ws |-> NoWs, doc |-> NoDoc, uid |-> 0, wsid |-> 0]

Idle ==
  [op |-> "idle", pc |-> "idle", tok |-> NoToken, a |-> NoArgs, user |-> 0,
   loc |-> NoLoc, status |-> 0, out |-> {}, notified |-> <<>>]

NewRequest(op, tok, a) == [Idle EXCEPT !.op = op, !.pc = "start", !.tok = tok, !.a = a]

\* the handler returns (status 200) or raises HTTPException(status)
Done(p, status, out) == [p EXCEPT !.pc = "done", !.status = status, !.out = out]

Goto(p, pc) == [p EXCEPT !.pc = pc]

St(w, p) == [w |-> w, p |-> p]

SetDb(w, d) == [w EXCEPT !.db = d]

\* send_notification called by a handler: the store insert, and the
\* recipient noted in the request's own record
Notify(w, p, user_id, notification_type) ==
  St(SetDb(w, send_notification(w.db, user_id, notification_type)),
     [p EXCEPT !.notified = Append(@, user_id)])

\* ------------------------------------------------------- get_current_user
\* get_current_user without the is_blocked test
get_current_user_unblocked(d, tok) ==
  IF tok = NoToken THEN [status |-> 403, user |-> 0]
  ELSE IF ~tok.valid THEN [status |-> 401, user |-> 0]
  ELSE IF tok.sub = 0 \/ tok.type # "access" THEN [status |-> 401, user |-> 0]
  ELSE IF ~Has(d.users, tok.sub) THEN [status |-> 401, user |-> 0]
  ELSE [status |-> 200, user |-> tok.sub]

\* get_current_user that trusts the payload of a token it could not verify
get_current_user_unverified(d, tok) ==
  IF tok = NoToken THEN [status |-> 403, user |-> 0]
  ELSE IF tok.sub = 0 \/ tok.type # "access" THEN [status |-> 401, user |-> 0]
  ELSE IF ~Has(d.users, tok.sub) THEN [status |-> 401, user |-> 0]
  ELSE IF Get(d.users, tok.sub).is_blocked THEN [status |-> 403, user |-> 0]
  ELSE [status |-> 200, user |-> tok.sub]

\* HTTPBearer answers 403 when the Authorization header is missing.
get_current_user(d, tok) ==
  IF tok = NoToken THEN [status |-> 403, user |-> 0]
  ELSE IF ~tok.valid THEN [status |-> 401, user |-> 0]
  ELSE IF tok.sub = 0 \/ tok.type # "access" THEN [status |-> 401, user |-> 0]
  ELSE IF ~Has(d.users, tok.sub) THEN [status |-> 401, user |-> 0]
  ELSE IF Get(d.users, tok.sub).is_blocked THEN [status |-> 403, user |-> 0]
  ELSE [status |-> 200, user |-> tok.sub]

\* the Depends(get_current_user) of a protected route, then its first step
Authenticate(w, p, pc) ==
  LET cur == get_current_user(w.db, p.tok)
  IN IF cur.status # 200 THEN St(w, Done(p, cur.status, {}))
     ELSE St(w, [p EXCEPT !.user = cur.user, !.pc = pc])

\* ------------------------------------------------------------- auth routes
FindUserByEmail(d, email) ==
  IF \E u \in d.users : u.email = email
  THEN (CHOOSE u \in d.users : u.email = email).id
  ELSE 0

\* the unique index on users.email: a write that would give a second user
\* the address raises DuplicateKeyError, which no handler catches
EmailTaken(d, email, self) == \E u \in d.users : u.email = email /\ u.id # self

signup(w, p) ==
  CASE p.pc = "start" ->
         LET lim == check_login_limit(w.rl, p.a.ip, w.now)
         IN IF ~lim.ok THEN St([w EXCEPT !.rl = lim.rl], Done(p, 429, {}))
            ELSE St([w EXCEPT !.rl = lim.rl], Goto(p, "find_existing"))
    [] p.pc = "find_existing" ->
         IF FindUserByEmail(w.db, lower(p.a.email)) # 0
         THEN St(w, Done(p, 400, {}))
         ELSE St(w, Goto(p, "insert_user"))
    [] p.pc = "insert_user" ->
         LET user_id == NextId(w.db, "users")
         IN IF EmailTaken(w.db, lower(p.a.email), 0)
            THEN St(w, Done(p, 500, {}))
            ELSE St(SetDb(w, [w.db EXCEPT
                     !.users = @ \cup {[id |-> user_id, email |-> lower(p.a.email),
                                        password |-> get_password_hash(p.a.pw),
                                        is_blocked |-> FALSE, last_login |-> w.now]},
                     !.seq["users"] = user_id]),
                  [p EXCEPT !.user = user_id, !.pc = "insert_workspace"])
    [] p.pc = "insert_workspace" ->
         LET wid == NextId(w.db, "workspaces")
         IN St(SetDb(w, [w.db EXCEPT
                  !.workspaces = @ \cup
                     {[id |-> wid, owner_id |-> p.user, member_ids |-> <<p.user>>,
                       member_roles |-> [u \in {p.user} |-> "admin"],
                       name |-> "default"]},
                  !.seq["workspaces"] = wid]),
               Done(p, 200, {[access_token |-> create_access_token(p.user),
                              refresh_token |-> create_refresh_token(p.user),
                              user_id |-> p.user]}))

login(w, p) ==
  CASE p.pc = "start" ->
         LET lim == check_login_limit(w.rl, p.a.ip, w.now)
         IN IF ~lim.ok THEN St([w EXCEPT !.rl = lim.rl], Done(p, 429, {}))
            ELSE St([w EXCEPT !.rl = lim.rl], Goto(p, "find_user"))
    [] p.pc = "find_user" ->
         LET uid == FindUserByEmail(w.db, lower(p.a.email))
         IN IF uid = 0 \/ ~verify_password(p.a.pw, Get(w.db.users, uid).password)
            THEN St(w, Done(p, 401, {}))
            ELSE IF Get(w.db.users, uid).is_blocked
                 THEN St(w, Done(p, 403, {}))
                 ELSE St(w, [p EXCEPT !.user = uid, !.pc = "update_last_login"])
    [] p.pc = "update_last_login" ->
         St(SetDb(w, [w.db EXCEPT !.users =
                  {IF u.id = p.user THEN [u EXCEPT !.last_login = w.now] ELSE u : u \in @}]),
            Done(p, 200, {[access_token |-> create_access_token(p.user),
                              refresh_token |-> create_refresh_token(p.user),
                              user_id |-> p.user]}))

\* /auth/refresh that does not look at the token's type
refresh_token_any_type(w, p) ==
  CASE p.pc = "start" ->
         IF ~p.a.rt.valid THEN St(w, Done(p, 401, {}))
         ELSE IF p.a.rt.sub = 0 THEN St(w, Done(p, 401, {}))
         ELSE IF ~Has(w.db.users, p.a.rt.sub) \/ Get(w.db.users, p.a.rt.sub).is_blocked
              THEN St(w, Done(p, 401, {}))
              ELSE St(w, Done(p, 200,
                        {[access_token |-> create_access_token(p.a.rt.sub)]}))

refresh_token(w, p) ==
  CASE p.pc = "start" ->
         IF ~p.a.rt.valid THEN St(w, Done(p, 401, {}))
         ELSE IF p.a.rt.sub = 0 \/ p.a.rt.type # "refresh" THEN St(w, Done(p, 401, {}))
         ELSE IF ~Has(w.db.users, p.a.rt.sub) \/ Get(w.db.users, p.a.rt.sub).is_blocked
              THEN St(w, Done(p, 401, {}))
              ELSE St(w, Done(p, 200,
                        {[access_token |-> create_access_token(p.a.rt.sub)]}))

\* /health: db.command("ping") answers while the store is reachable
health_check(w, p) ==
  CASE p.pc = "start" -> St(w, Done(p, 200, {}))

get_me(w, p) ==
  CASE p.pc = "start" -> Authenticate(w, p, "body")
    [] p.pc = "body" -> St(w, Done(p, 200, {[id |-> p.user]}))

\* PUT /user/me with an e-mail address (a.email = "" when none is given)
update_me(w, p) ==
  CASE p.pc = "start" -> Authenticate(w, p, "find_existing")
    [] p.pc = "find_existing" ->
         IF p.a.email # "" /\ EmailTaken(w.db, lower(p.a.email), p.user)
         THEN St(w, Done(p, 400, {}))
         ELSE St(w, Goto(p, "update"))
    [] p.pc = "update" ->
         IF p.a.email = "" THEN St(w, Goto(p, "find"))
         ELSE IF EmailTaken(w.db, lower(p.a.email), p.user)
         THEN St(w, Done(p, 500, {}))
         ELSE St(SetDb(w, [w.db EXCEPT !.users =
                   {IF u.id = p.user THEN [u EXCEPT !.email = lower(p.a.email)] ELSE u
                      : u \in @}]),
                 Goto(p, "find"))
    [] p.pc = "find" ->
         St(w, Done(p, 200, {[id |-> p.user, email |-> Get(w.db.users, p.user).email]}))

\* -------------------------------------------------------- workspace routes
\* find_one({"_id": workspace_id}) into the request's local variable
FindWs(d, id) == IF Has(d.workspaces, id) THEN Get(d.workspaces, id) ELSE NoWs

\* only the owner passes
IsOwner(ws, uid) == ws.owner_id = uid

IsAdminOrOwner(ws, uid) == ~(RoleOf(ws, uid) # "admin" /\ ws.owner_id # uid)

create_workspace(w, p) ==
  CASE p.pc = "start" -> Authenticate(w, p, "insert")
    [] p.pc = "insert" ->
         LET wid == NextId(w.db, "workspaces")
             doc == [id |-> wid, owner_id |-> p.user, member_ids |-> <<p.user>>,
                     member_roles |-> [u \in {p.user} |-> "admin"], name |-> p.a.name]
         IN St(SetDb(w, [w.db EXCEPT !.workspaces = @ \cup {doc},
                                     !.seq["workspaces"] = wid]),
               [p EXCEPT !.loc.ws = doc, !.pc = "log"])
    [] p.pc = "log" ->
         St(SetDb(w, log_activity(w.db, p.user, "created", "workspace",
                                  p.loc.ws.id, p.loc.ws.id)),
            Done(p, 200, {p.loc.ws}))

update_workspace(w, p) ==
  CASE p.pc = "start" -> Authenticate(w, p, "find")
    [] p.pc = "find" ->
         LET existing == FindWs(w.db, p.a.ws)
         IN IF existing.id = 0 THEN St(w, Done(p, 404, {}))
            ELSE IF ~IsAdminOrOwner(existing, p.user) THEN St(w, Done(p, 403, {}))
            ELSE St(w, [p EXCEPT !.loc.ws = existing, !.pc = "update"])
    [] p.pc = "update" ->
         St(SetDb(w, [w.db EXCEPT !.workspaces =
                  {IF x.id = p.a.ws THEN [x EXCEPT !.name = p.a.name] ELSE x : x \in @}]),
            Goto(p, "log"))
    [] p.pc = "log" ->
         St(SetDb(w, log_activity(w.db, p.user, "updated", "workspace", p.a.ws, p.a.ws)),
            Done(p, 200, {}))

delete_workspace(w, p) ==
  CASE p.pc = "start" -> Authenticate(w, p, "find")
    [] p.pc = "find" ->
         LET workspace == FindWs(w.db, p.a.ws)
         IN IF workspace.id = 0 THEN St(w, Done(p, 404, {}))
            ELSE IF workspace.owner_id # p.user THEN St(w, Done(p, 403, {}))
            ELSE St(w, [p EXCEPT !.loc.ws = workspace, !.pc = "del_projects"])
    [] p.pc = "del_projects" ->
         St(SetDb(w, [w.db EXCEPT !.projects = {x \in @ : x.workspace_id # p.a.ws}]),
            Goto(p, "del_requests"))
    [] p.pc = "del_requests" ->
         St(SetDb(w, [w.db EXCEPT !.requests = {x \in @ : x.workspace_id # p.a.ws}]),
            Goto(p, "del_notes"))
    [] p.pc = "del_notes" ->
         St(SetDb(w, [w.db EXCEPT !.notes = {x \in @ : x.workspace_id # p.a.ws}]),
            Goto(p, "del_files"))
    [] p.pc = "del_files" ->
         St(SetDb(w, [w.db EXCEPT !.files = {x \in @ : x.workspace_id # p.a.ws}]),
            Goto(p, "del_activities"))
    [] p.pc = "del_activities" ->
         St(SetDb(w, [w.db EXCEPT !.activities = {x \in @ : x.workspace_id # p.a.ws}]),
            Goto(p, "del_workspace"))
    [] p.pc = "del_workspace" ->
         St(SetDb(w, [w.db EXCEPT !.workspaces = {x \in @ : x.id # p.a.ws}]),
            Done(p, 200, {}))

\* {"$push": {"member_ids": user_id}, "$set": {"member_roles.<user_id>": role}}
\* class InviteMember: a body without a role ("") carries the default, member
InviteMemberRole(role) == IF role = "" THEN "member" ELSE role

\* the update of invite_member with the role fixed to member
InviteUpdate_always_member(ws, user_id, role) ==
  [ws EXCEPT !.member_ids = Append(@, user_id),
             !.member_roles = [u \in (DOMAIN @) \cup {user_id} |->
                                 IF u = user_id THEN "member" ELSE @[u]]]

InviteUpdate(ws, user_id, role) ==
  [ws EXCEPT !.member_ids = Append(@, user_id),
             !.member_roles = [u \in (DOMAIN @) \cup {user_id} |->
                                 IF u = user_id THEN role ELSE @[u]]]

\* the update of remove_member without its $unset
RemoveUpdate_pull_only(ws, member_id) ==
  [ws EXCEPT !.member_ids = SelectSeq(@, LAMBDA m : m # member_id)]

\* {"$pull": {"member_ids": member_id}, "$unset": {"member_roles.<member_id>": ""}}
RemoveUpdate(ws, member_id) ==
  [ws EXCEPT !.member_ids = SelectSeq(@, LAMBDA m : m # member_id),
             !.member_roles = [u \in (DOMAIN @) \ {member_id} |-> @[u]]]

\* invite_member without the test that the user is a member already
invite_member_unchecked(w, p) ==
  CASE p.pc = "start" -> Authenticate(w, p, "find_ws")
    [] p.pc = "find_ws" ->
         LET workspace == FindWs(w.db, p.a.ws)
         IN IF workspace.id = 0 THEN St(w, Done(p, 404, {}))
            ELSE IF ~IsAdminOrOwner(workspace, p.user) THEN St(w, Done(p, 403, {}))
            ELSE St(w, [p EXCEPT !.loc.ws = workspace, !.pc = "find_user"])
    [] p.pc = "find_user" ->
         LET user_id == FindUserByEmail(w.db, lower(p.a.email))
         IN IF user_id = 0 THEN St(w, Done(p, 404, {}))
            ELSE St(w, [p EXCEPT !.loc.uid = user_id, !.pc = "update"])
    [] p.pc = "update" ->
         St(SetDb(w, [w.db EXCEPT !.workspaces =
                  {IF x.id = p.a.ws
                   THEN InviteUpdate(x, p.loc.uid, InviteMemberRole(p.a.role)) ELSE x
                     : x \in @}]),
            Goto(p, "notify"))
    [] p.pc = "notify" ->
         LET n == Notify(w, p, p.loc.uid, "info") IN St(n.w, Goto(n.p, "log"))
    [] p.pc = "log" ->
         St(SetDb(w, log_activity(w.db, p.user, "invited", "member", p.loc.uid, p.a.ws)),
            Done(p, 200, {}))

invite_member(w, p) ==
  CASE p.pc = "start" -> Authenticate(w, p, "find_ws")
    [] p.pc = "find_ws" ->
         LET workspace == FindWs(w.db, p.a.ws)
         IN IF workspace.id = 0 THEN St(w, Done(p, 404, {}))
            ELSE IF ~IsAdminOrOwner(workspace, p.user) THEN St(w, Done(p, 403, {}))
            ELSE St(w, [p EXCEPT !.loc.ws = workspace, !.pc = "find_user"])
    [] p.pc = "find_user" ->
         LET user_id == FindUserByEmail(w.db, lower(p.a.email))
         IN IF user_id = 0 THEN St(w, Done(p, 404, {}))
            ELSE IF InSeq(user_id, p.loc.ws.member_ids) THEN St(w, Done(p, 400, {}))
            ELSE St(w, [p EXCEPT !.loc.uid = user_id, !.pc = "update"])
    [] p.pc = "update" ->
         St(SetDb(w, [w.db EXCEPT !.workspaces =
                  {IF x.id = p.a.ws
                   THEN InviteUpdate(x, p.loc.uid, InviteMemberRole(p.a.role)) ELSE x
                     : x \in @}]),
            Goto(p, "notify"))
    [] p.pc = "notify" ->
         LET n == Notify(w, p, p.loc.uid, "info") IN St(n.w, Goto(n.p, "log"))
    [] p.pc = "log" ->
         St(SetDb(w, log_activity(w.db, p.user, "invited", "member", p.loc.uid, p.a.ws)),
            Done(p, 200, {}))

\* remove_member without the test that the member is the owner
remove_member_unguarded(w, p) ==
  CASE p.pc = "start" -> Authenticate(w, p, "find_ws")
    [] p.pc = "find_ws" ->
         LET workspace == FindWs(w.db, p.a.ws)
         IN IF workspace.id = 0 THEN St(w, Done(p, 404, {}))
            ELSE IF ~IsAdminOrOwner(workspace, p.user) THEN St(w, Done(p, 403, {}))
            ELSE St(w, [p EXCEPT !.loc.ws = workspace, !.pc = "update"])
    [] p.pc = "update" ->
         St(SetDb(w, [w.db EXCEPT !.workspaces =
                  {IF x.id = p.a.ws THEN RemoveUpdate(x, p.a.member) ELSE x : x \in @}]),
            Done(p, 200, {}))

remove_member(w, p) ==
  CASE p.pc = "start" -> Authenticate(w, p, "find_ws")
    [] p.pc = "find_ws" ->
         LET workspace == FindWs(w.db, p.a.ws)
         IN IF workspace.id = 0 THEN St(w, Done(p, 404, {}))
            ELSE IF workspace.owner_id = p.a.member THEN St(w, Done(p, 400, {}))
            ELSE IF ~IsAdminOrOwner(workspace, p.user) THEN St(w, Done(p, 403, {}))
            ELSE St(w, [p EXCEPT !.loc.ws = workspace, !.pc = "update"])
    [] p.pc = "update" ->
         St(SetDb(w, [w.db EXCEPT !.workspaces =
                  {IF x.id = p.a.ws THEN RemoveUpdate(x, p.a.member) ELSE x : x \in @}]),
            Done(p, 200, {}))

\* ---------------------------------------------------------- project routes
IsMember(ws, uid) == ws.id # 0 /\ InSeq(uid, ws.member_ids)

Find(coll, id) == IF Has(coll, id) THEN Get(coll, id) ELSE NoDoc

RECURSIVE NotifyEach(_, _, _, _)
\* for user_id in ...: send_notification(user_id, ...)
NotifyEach(w, p, S, notification_type) ==
  IF S = {} THEN St(w, p)
  ELSE LET u == CHOOSE x \in S : \A y \in S : x <= y
           n == Notify(w, p, u, notification_type)
       IN NotifyEach(n.w, n.p, S \ {u}, notification_type)

create_project(w, p) ==
  CASE p.pc = "start" -> Authenticate(w, p, "find_ws")
    [] p.pc = "find_ws" ->
         LET workspace == FindWs(w.db, p.a.ws)
         IN IF workspace.id = 0 \/ ~InSeq(p.user, workspace.member_ids)
            THEN St(w, Done(p, 403, {}))
            ELSE St(w, Goto(p, "insert"))
    [] p.pc = "insert" ->
         LET pid == NextId(w.db, "projects")
             doc == [id |-> pid, workspace_id |-> p.a.ws, created_by |-> p.user,
                     name |-> p.a.name, assigned_to |-> p.a.assigned]
         IN St(SetDb(w, [w.db EXCEPT !.projects = @ \cup {doc}, !.seq["projects"] = pid]),
               [p EXCEPT !.loc.doc = doc, !.pc = "log"])
    [] p.pc = "log" ->
         St(SetDb(w, log_activity(w.db, p.user, "created", "project",
                                  p.loc.doc.id, p.a.ws)),
            Goto(p, "notify"))
    [] p.pc = "notify" ->
         LET n == NotifyEach(w, p, p.a.assigned \ {p.user}, "assignment")
         IN St(n.w, Done(n.p, 200, {p.loc.doc}))

get_projects(w, p) ==
  CASE p.pc = "start" -> Authenticate(w, p, "body")
    [] p.pc = "body" ->
         IF ~IsMember(FindWs(w.db, p.a.ws), p.user) THEN St(w, Done(p, 403, {}))
         ELSE St(w, Done(p, 200, {x \in w.db.projects : x.workspace_id = p.a.ws}))

update_project(w, p) ==
  CASE p.pc = "start" -> Authenticate(w, p, "find")
    [] p.pc = "find" ->
         LET existing == Find(w.db.projects, p.a.id)
         IN IF existing.id = 0 THEN St(w, Done(p, 404, {}))
            ELSE St(w, [p EXCEPT !.loc.doc = existing, !.pc = "update"])
    [] p.pc = "update" ->
         St(SetDb(w, [w.db EXCEPT !.projects =
                  {IF x.id = p.a.id
                   THEN [x EXCEPT !.name = p.a.name, !.assigned_to = p.a.assigned]
                   ELSE x : x \in @}]),
            Goto(p, "log"))
    [] p.pc = "log" ->
         St(SetDb(w, log_activity(w.db, p.user, "updated", "project",
                                  p.a.id, p.loc.doc.workspace_id)),
            Goto(p, "notify"))
    [] p.pc = "notify" ->
         LET n == NotifyEach(w, p, (p.a.assigned \ p.loc.doc.assigned_to) \ {p.user},
                             "assignment")
         IN St(n.w, Done(n.p, 200, {}))

\* the role check of delete_project: creator or admin role
MayDeleteProject(project, workspace, uid) ==
  ~(project.created_by # uid /\ RoleOf(workspace, uid) # "admin")

\* delete_project without the delete_many on comments
delete_project_keeps_comments(w, p) ==
  CASE p.pc = "start" -> Authenticate(w, p, "find")
    [] p.pc = "find" ->
         LET project == Find(w.db.projects, p.a.id)
         IN IF project.id = 0 THEN St(w, Done(p, 404, {}))
            ELSE St(w, [p EXCEPT !.loc.doc = project, !.pc = "find_ws"])
    [] p.pc = "find_ws" ->
         LET workspace == FindWs(w.db, p.loc.doc.workspace_id)
         IN IF workspace.id = 0 THEN St(w, Done(p, 500, {}))
            ELSE IF ~MayDeleteProject(p.loc.doc, workspace, p.user)
                 THEN St(w, Done(p, 403, {}))
                 ELSE St(w, Goto(p, "del_tasks"))
    [] p.pc = "del_tasks" ->
         St(SetDb(w, [w.db EXCEPT !.tasks = {x \in @ : x.project_id # p.a.id}]),
            Goto(p, "del_files"))
    [] p.pc = "del_files" ->
         St(SetDb(w, [w.db EXCEPT !.files = {x \in @ : x.project_id # p.a.id}]),
            Goto(p, "del_project"))
    [] p.pc = "del_project" ->
         St(SetDb(w, [w.db EXCEPT !.projects = {x \in @ : x.id # p.a.id}]),
            Goto(p, "log"))
    [] p.pc = "log" ->
         St(SetDb(w, log_activity(w.db, p.user, "deleted", "project",
                                  p.a.id, p.loc.doc.workspace_id)),
            Done(p, 200, {}))

\* delete_project that deletes the project document before its children
delete_project_project_first(w, p) ==
  CASE p.pc = "start" -> Authenticate(w, p, "find")
    [] p.pc = "find" ->
         LET project == Find(w.db.projects, p.a.id)
         IN IF project.id = 0 THEN St(w, Done(p, 404, {}))
            ELSE St(w, [p EXCEPT !.loc.doc = project, !.pc = "find_ws"])
    [] p.pc = "find_ws" ->
         LET workspace == FindWs(w.db, p.loc.doc.workspace_id)
         IN IF workspace.id = 0 THEN St(w, Done(p, 500, {}))
            ELSE IF ~MayDeleteProject(p.loc.doc, workspace, p.user)
                 THEN St(w, Done(p, 403, {}))
                 ELSE St(w, Goto(p, "del_project"))
    [] p.pc = "del_project" ->
         St(SetDb(w, [w.db EXCEPT !.projects = {x \in @ : x.id # p.a.id}]),
            Goto(p, "del_tasks"))
    [] p.pc = "del_tasks" ->
         St(SetDb(w, [w.db EXCEPT !.tasks = {x \in @ : x.project_id # p.a.id}]),
            Goto(p, "del_comments"))
    [] p.pc = "del_comments" ->
         St(SetDb(w, [w.db EXCEPT !.comments = {x \in @ : x.project_id # p.a.id}]),
            Goto(p, "del_files"))
    [] p.pc = "del_files" ->
         St(SetDb(w, [w.db EXCEPT !.files = {x \in @ : x.project_id # p.a.id}]),
            Goto(p, "log"))
    [] p.pc = "log" ->
         St(SetDb(w, log_activity(w.db, p.user, "deleted", "project",
                                  p.a.id, p.loc.doc.workspace_id)),
            Done(p, 200, {}))

delete_project(w, p) ==
  CASE p.pc = "start" -> Authenticate(w, p, "find")
    [] p.pc = "find" ->
         LET project == Find(w.db.projects, p.a.id)
         IN IF project.id = 0 THEN St(w, Done(p, 404, {}))
            ELSE St(w, [p EXCEPT !.loc.doc = project, !.pc = "find_ws"])
    [] p.pc = "find_ws" ->
         LET workspace == FindWs(w.db, p.loc.doc.workspace_id)
         IN IF workspace.id = 0 THEN St(w, Done(p, 500, {}))
            ELSE IF ~MayDeleteProject(p.loc.doc, workspace, p.user)
                 THEN St(w, Done(p, 403, {}))
                 ELSE St(w, Goto(p, "del_tasks"))
    [] p.pc = "del_tasks" ->
         St(SetDb(w, [w.db EXCEPT !.tasks = {x \in @ : x.project_id # p.a.id}]),
            Goto(p, "del_comments"))
    [] p.pc = "del_comments" ->
         St(SetDb(w, [w.db EXCEPT !.comments = {x \in @ : x.project_id # p.a.id}]),
            Goto(p, "del_files"))
    [] p.pc = "del_files" ->
         St(SetDb(w, [w.db EXCEPT !.files = {x \in @ : x.project_id # p.a.id}]),
            Goto(p, "del_project"))
    [] p.pc = "del_project" ->
         St(SetDb(w, [w.db EXCEPT !.projects = {x \in @ : x.id # p.a.id}]),
            Goto(p, "log"))
    [] p.pc = "log" ->
         St(SetDb(w, log_activity(w.db, p.user, "deleted", "project",
                                  p.a.id, p.loc.doc.workspace_id)),
            Done(p, 200, {}))

\* ------------------------------------------------------------- task routes
TaskStatuses == {"todo", "in_progress", "review", "done", "cancelled"}

\* project["workspace_id"] if project else ""  (0 stands for "")
WsOfProject(d, project_id) ==
  IF Has(d.projects, project_id) THEN Get(d.projects, project_id).workspace_id ELSE 0

create_task(w, p) ==
  CASE p.pc = "start" -> Authenticate(w, p, "find_project")
    [] p.pc = "find_project" ->
         LET project == Find(w.db.projects, p.a.project)
         IN IF project.id = 0 THEN St(w, Done(p, 404, {}))
            ELSE St(w, [p EXCEPT !.loc.wsid = project.workspace_id, !.pc = "insert"])
    [] p.pc = "insert" ->
         LET tid == NextId(w.db, "tasks")
             doc == [id |-> tid, project_id |-> p.a.project, created_by |-> p.user,
                     title |-> p.a.name, status |-> p.a.status,
                     assigned_to |-> p.a.member, parent_task_id |-> p.a.task]
         IN St(SetDb(w, [w.db EXCEPT !.tasks = @ \cup {doc}, !.seq["tasks"] = tid]),
               [p EXCEPT !.loc.doc = doc, !.pc = "log"])
    [] p.pc = "log" ->
         St(SetDb(w, log_activity(w.db, p.user, "created", "task",
                                  p.loc.doc.id, p.loc.wsid)),
            Goto(p, "notify"))
    [] p.pc = "notify" ->
         IF p.a.member # 0 /\ p.a.member # p.user
         THEN LET n == Notify(w, p, p.a.member, "assignment")
              IN St(n.w, Done(n.p, 200, {p.loc.doc}))
         ELSE St(w, Done(p, 200, {p.loc.doc}))

get_tasks(w, p) ==
  CASE p.pc = "start" -> Authenticate(w, p, "body")
    [] p.pc = "body" ->
         St(w, Done(p, 200,
                    {x \in w.db.tasks : p.a.project = 0 \/ x.project_id = p.a.project}))

\* update_task that writes the title and the other fields in two store calls
update_task_two_writes(w, p) ==
  CASE p.pc = "start" -> Authenticate(w, p, "find")
    [] p.pc = "find" ->
         LET existing == Find(w.db.tasks, p.a.id)
         IN IF existing.id = 0 THEN St(w, Done(p, 404, {}))
            ELSE St(w, [p EXCEPT !.loc.doc = existing, !.pc = "update"])
    [] p.pc = "update" ->
         St(SetDb(w, [w.db EXCEPT !.tasks =
                  {IF x.id = p.a.id THEN [x EXCEPT !.title = p.a.name] ELSE x : x \in @}]),
            Goto(p, "update_rest"))
    [] p.pc = "update_rest" ->
         St(SetDb(w, [w.db EXCEPT !.tasks =
                  {IF x.id = p.a.id
                   THEN [x EXCEPT !.status = p.a.status, !.assigned_to = p.a.member]
                   ELSE x : x \in @}]),
            Goto(p, "find_project"))
    [] p.pc = "find_project" ->
         St(w, [p EXCEPT !.loc.wsid = WsOfProject(w.db, p.loc.doc.project_id),
                         !.pc = "log"])
    [] p.pc = "log" ->
         St(SetDb(w, log_activity(w.db, p.user, "updated", "task", p.a.id, p.loc.wsid)),
            Goto(p, "notify"))
    [] p.pc = "notify" ->
         IF p.a.member # 0 /\ p.a.member # p.loc.doc.assigned_to /\ p.a.member # p.user
         THEN LET n == Notify(w, p, p.a.member, "assignment")
              IN St(n.w, Done(n.p, 200, {}))
         ELSE St(w, Done(p, 200, {}))

update_task(w, p) ==
  CASE p.pc = "start" -> Authenticate(w, p, "find")
    [] p.pc = "find" ->
         LET existing == Find(w.db.tasks, p.a.id)
         IN IF existing.id = 0 THEN St(w, Done(p, 404, {}))
            ELSE St(w, [p EXCEPT !.loc.doc = existing, !.pc = "update"])
    [] p.pc = "update" ->
         St(SetDb(w, [w.db EXCEPT !.tasks =
                  {IF x.id = p.a.id
                   THEN [x EXCEPT !.title = p.a.name, !.status = p.a.status,
                                  !.assigned_to = p.a.member]
                   ELSE x : x \in @}]),
            Goto(p, "find_project"))
    [] p.pc = "find_project" ->
         St(w, [p EXCEPT !.loc.wsid = WsOfProject(w.db, p.loc.doc.project_id),
                         !.pc = "log"])
    [] p.pc = "log" ->
         St(SetDb(w, log_activity(w.db, p.user, "updated", "task", p.a.id, p.loc.wsid)),
            Goto(p, "notify"))
    [] p.pc = "notify" ->
         IF p.a.member # 0 /\ p.a.member # p.loc.doc.assigned_to /\ p.a.member # p.user
         THEN LET n == Notify(w, p, p.a.member, "assignment")
              IN St(n.w, Done(n.p, 200, {}))
         ELSE St(w, Done(p, 200, {}))

\* PATCH /tasks/{id}/status that stores whatever status it is given
update_task_status_unvalidated(w, p) ==
  CASE p.pc = "start" -> Authenticate(w, p, "find")
    [] p.pc = "find" ->
         LET task == Find(w.db.tasks, p.a.id)
         IN IF task.id = 0 THEN St(w, Done(p, 404, {}))
            ELSE St(w, [p EXCEPT !.loc.doc = task, !.pc = "update"])
    [] p.pc = "update" ->
         St(SetDb(w, [w.db EXCEPT !.tasks =
                  {IF x.id = p.a.id THEN [x EXCEPT !.status = p.a.status] ELSE x
                     : x \in @}]),
            Goto(p, "find_project"))
    [] p.pc = "find_project" ->
         St(w, [p EXCEPT !.loc.wsid = WsOfProject(w.db, p.loc.doc.project_id),
                         !.pc = "log"])
    [] p.pc = "log" ->
         St(SetDb(w, log_activity(w.db, p.user, "status_changed", "task",
                                  p.a.id, p.loc.wsid)),
            Done(p, 200, {}))

update_task_status(w, p) ==
  CASE p.pc = "start" -> Authenticate(w, p, "find")
    [] p.pc = "find" ->
         IF p.a.status \notin TaskStatuses THEN St(w, Done(p, 400, {}))
         ELSE LET task == Find(w.db.tasks, p.a.id)
              IN IF task.id = 0 THEN St(w, Done(p, 404, {}))
                 ELSE St(w, [p EXCEPT !.loc.doc = task, !.pc = "update"])
    [] p.pc = "update" ->
         St(SetDb(w, [w.db EXCEPT !.tasks =
                  {IF x.id = p.a.id THEN [x EXCEPT !.status = p.a.status] ELSE x
                     : x \in @}]),
            Goto(p, "find_project"))
    [] p.pc = "find_project" ->
         St(w, [p EXCEPT !.loc.wsid = WsOfProject(w.db, p.loc.doc.project_id),
                         !.pc = "log"])
    [] p.pc = "log" ->
         St(SetDb(w, log_activity(w.db, p.user, "status_changed", "task",
                                  p.a.id, p.loc.wsid)),
            Done(p, 200, {}))

\* delete_task without the delete_many on subtasks
delete_task_keeps_subtasks(w, p) ==
  CASE p.pc = "start" -> Authenticate(w, p, "find")
    [] p.pc = "find" ->
         LET task == Find(w.db.tasks, p.a.id)
         IN IF task.id = 0 THEN St(w, Done(p, 404, {}))
            ELSE St(w, [p EXCEPT !.loc.doc = task, !.pc = "del_comments"])
    [] p.pc = "del_comments" ->
         St(SetDb(w, [w.db EXCEPT !.comments = {x \in @ : x.task_id # p.a.id}]),
            Goto(p, "del_files"))
    [] p.pc = "del_files" ->
         St(SetDb(w, [w.db EXCEPT !.files = {x \in @ : x.task_id # p.a.id}]),
            Goto(p, "del_task"))
    [] p.pc = "del_task" ->
         St(SetDb(w, [w.db EXCEPT !.tasks = {x \in @ : x.id # p.a.id}]),
            Goto(p, "find_project"))
    [] p.pc = "find_project" ->
         St(w, [p EXCEPT !.loc.wsid = WsOfProject(w.db, p.loc.doc.project_id),
                         !.pc = "log"])
    [] p.pc = "log" ->
         St(SetDb(w, log_activity(w.db, p.user, "deleted", "task", p.a.id, p.loc.wsid)),
            Done(p, 200, {}))

delete_task(w, p) ==
  CASE p.pc = "start" -> Authenticate(w, p, "find")
    [] p.pc = "find" ->
         LET task == Find(w.db.tasks, p.a.id)
         IN IF task.id = 0 THEN St(w, Done(p, 404, {}))
            ELSE St(w, [p EXCEPT !.loc.doc = task, !.pc = "del_subtasks"])
    [] p.pc = "del_subtasks" ->
         St(SetDb(w, [w.db EXCEPT !.subtasks = {x \in @ : x.task_id # p.a.id}]),
            Goto(p, "del_comments"))
    [] p.pc = "del_comments" ->
         St(SetDb(w, [w.db EXCEPT !.comments = {x \in @ : x.task_id # p.a.id}]),
            Goto(p, "del_files"))
    [] p.pc = "del_files" ->
         St(SetDb(w, [w.db EXCEPT !.files = {x \in @ : x.task_id # p.a.id}]),
            Goto(p, "del_task"))
    [] p.pc = "del_task" ->
         St(SetDb(w, [w.db EXCEPT !.tasks = {x \in @ : x.id # p.a.id}]),
            Goto(p, "find_project"))
    [] p.pc = "find_project" ->
         St(w, [p EXCEPT !.loc.wsid = WsOfProject(w.db, p.loc.doc.project_id),
                         !.pc = "log"])
    [] p.pc = "log" ->
         St(SetDb(w, log_activity(w.db, p.user, "deleted", "task", p.a.id, p.loc.wsid)),
            Done(p, 200, {}))

\* ---------------------------------------------------------- subtask routes
create_subtask(w, p) ==
  CASE p.pc = "start" -> Authenticate(w, p, "find_task")
    [] p.pc = "find_task" ->
         IF ~Has(w.db.tasks, p.a.task) THEN St(w, Done(p, 404, {}))
         ELSE St(w, Goto(p, "insert"))
    [] p.pc = "insert" ->
         LET sid == NextId(w.db, "subtasks")
             doc == [id |-> sid, task_id |-> p.a.task, created_by |-> p.user]
         IN St(SetDb(w, [w.db EXCEPT !.subtasks = @ \cup {doc}, !.seq["subtasks"] = sid]),
               Done(p, 200, {doc}))

\* ------------------------------------------------------------ notes routes
create_note(w, p) ==
  CASE p.pc = "start" -> Authenticate(w, p, "find_ws")
    [] p.pc = "find_ws" ->
         IF ~IsMember(FindWs(w.db, p.a.ws), p.user) THEN St(w, Done(p, 403, {}))
         ELSE St(w, Goto(p, "insert"))
    [] p.pc = "insert" ->
         LET nid == NextId(w.db, "notes")
             doc == [id |-> nid, workspace_id |-> p.a.ws, created_by |-> p.user,
                     title |-> p.a.name]
         IN St(SetDb(w, [w.db EXCEPT !.notes = @ \cup {doc}, !.seq["notes"] = nid]),
               [p EXCEPT !.loc.doc = doc, !.pc = "log"])
    [] p.pc = "log" ->
         St(SetDb(w, log_activity(w.db, p.user, "created", "note", p.loc.doc.id, p.a.ws)),
            Done(p, 200, {p.loc.doc}))

get_notes(w, p) ==
  CASE p.pc = "start" -> Authenticate(w, p, "body")
    [] p.pc = "body" ->
         St(w, Done(p, 200, {x \in w.db.notes : x.workspace_id = p.a.ws}))

update_note(w, p) ==
  CASE p.pc = "start" -> Authenticate(w, p, "find")
    [] p.pc = "find" ->
         IF ~Has(w.db.notes, p.a.id) THEN St(w, Done(p, 404, {}))
         ELSE St(w, Goto(p, "update"))
    [] p.pc = "update" ->
         St(SetDb(w, [w.db EXCEPT !.notes =
                  {IF x.id = p.a.id THEN [x EXCEPT !.title = p.a.name] ELSE x : x \in @}]),
            Done(p, 200, {}))

delete_note(w, p) ==
  CASE p.pc = "start" -> Authenticate(w, p, "find")
    [] p.pc = "find" ->
         LET note == Find(w.db.notes, p.a.id)
         IN IF note.id = 0 THEN St(w, Done(p, 404, {}))
            ELSE St(w, [p EXCEPT !.loc.doc = note, !.pc = "delete"])
    [] p.pc = "delete" ->
         St(SetDb(w, [w.db EXCEPT !.notes = {x \in @ : x.id # p.a.id}]), Goto(p, "log"))
    [] p.pc = "log" ->
         St(SetDb(w, log_activity(w.db, p.user, "deleted", "note",
                                  p.a.id, p.loc.doc.workspace_id)),
            Done(p, 200, {}))

\* ------------------------------------------------------------- tags routes
create_tag(w, p) ==
  CASE p.pc = "start" -> Authenticate(w, p, "find_existing")
    [] p.pc = "find_existing" ->
         IF \E x \in w.db.tags : x.name = p.a.name /\ x.workspace_id = p.a.ws
         THEN St(w, Done(p, 400, {}))
         ELSE St(w, Goto(p, "insert"))
    [] p.pc = "insert" ->
         LET tid == NextId(w.db, "tags")
             doc == [id |-> tid, workspace_id |-> p.a.ws, name |-> p.a.name,
                     created_by |-> p.user]
         IN St(SetDb(w, [w.db EXCEPT !.tags = @ \cup {doc}, !.seq["tags"] = tid]),
               Done(p, 200, {doc}))

get_tags(w, p) ==
  CASE p.pc = "start" -> Authenticate(w, p, "body")
    [] p.pc = "body" ->
         St(w, Done(p, 200, {x \in w.db.tags : x.workspace_id = p.a.ws}))

\* ---------------------------------------------------------- request routes
RequestStatuses == {"pending", "in_review", "approved", "rejected", "completed"}

create_request(w, p) ==
  CASE p.pc = "start" -> Authenticate(w, p, "find_ws")
    [] p.pc = "find_ws" ->
         LET workspace == FindWs(w.db, p.a.ws)
         IN IF ~IsMember(workspace, p.user) THEN St(w, Done(p, 403, {}))
            ELSE St(w, [p EXCEPT !.loc.ws = workspace, !.pc = "insert"])
    [] p.pc = "insert" ->
         LET rid == NextId(w.db, "requests")
             doc == [id |-> rid, workspace_id |-> p.a.ws, created_by |-> p.user,
                     title |-> p.a.name, status |-> "pending"]
         IN St(SetDb(w, [w.db EXCEPT !.requests = @ \cup {doc}, !.seq["requests"] = rid]),
               [p EXCEPT !.loc.doc = doc, !.pc = "log"])
    [] p.pc = "log" ->
         St(SetDb(w, log_activity(w.db, p.user, "created", "request",
                                  p.loc.doc.id, p.a.ws)),
            Goto(p, "notify"))
    [] p.pc = "notify" ->
         LET admins == {u \in DOMAIN p.loc.ws.member_roles :
                          p.loc.ws.member_roles[u] = "admin" /\ u # p.user}
             n == NotifyEach(w, p, admins, "info")
         IN St(n.w, Done(n.p, 200, {p.loc.doc}))

get_requests(w, p) ==
  CASE p.pc = "start" -> Authenticate(w, p, "body")
    [] p.pc = "body" ->
         IF ~IsMember(FindWs(w.db, p.a.ws), p.user) THEN St(w, Done(p, 403, {}))
         ELSE St(w, Done(p, 200, {x \in w.db.requests : x.workspace_id = p.a.ws}))

\* update_request that takes the workspace from the request body
update_request_moves(w, p) ==
  CASE p.pc = "start" -> Authenticate(w, p, "find")
    [] p.pc = "find" ->
         LET existing == Find(w.db.requests, p.a.id)
         IN IF existing.id = 0 THEN St(w, Done(p, 404, {}))
            ELSE St(w, [p EXCEPT !.loc.doc = existing, !.pc = "update"])
    [] p.pc = "update" ->
         St(SetDb(w, [w.db EXCEPT !.requests =
                  {IF x.id = p.a.id
                   THEN [x EXCEPT !.title = p.a.name, !.workspace_id = p.a.ws]
                   ELSE x : x \in @}]),
            Goto(p, "log"))
    [] p.pc = "log" ->
         St(SetDb(w, log_activity(w.db, p.user, "updated", "request",
                                  p.a.id, p.loc.doc.workspace_id)),
            Done(p, 200, {}))

update_request(w, p) ==
  CASE p.pc = "start" -> Authenticate(w, p, "find")
    [] p.pc = "find" ->
         LET existing == Find(w.db.requests, p.a.id)
         IN IF existing.id = 0 THEN St(w, Done(p, 404, {}))
            ELSE St(w, [p EXCEPT !.loc.doc = existing, !.pc = "update"])
    [] p.pc = "update" ->
         St(SetDb(w, [w.db EXCEPT !.requests =
                  {IF x.id = p.a.id THEN [x EXCEPT !.title = p.a.name] ELSE x : x \in @}]),
            Goto(p, "log"))
    [] p.pc = "log" ->
         St(SetDb(w, log_activity(w.db, p.user, "updated", "request",
                                  p.a.id, p.loc.doc.workspace_id)),
            Done(p, 200, {}))

update_request_status(w, p) ==
  CASE p.pc = "start" -> Authenticate(w, p, "find")
    [] p.pc = "find" ->
         LET request == Find(w.db.requests, p.a.id)
         IN IF request.id = 0 THEN St(w, Done(p, 404, {}))
            ELSE St(w, [p EXCEPT !.loc.doc = request, !.pc = "update"])
    [] p.pc = "update" ->
         St(SetDb(w, [w.db EXCEPT !.requests =
                  {IF x.id = p.a.id THEN [x EXCEPT !.status = p.a.status] ELSE x
                     : x \in @}]),
            Goto(p, "notify"))
    [] p.pc = "notify" ->
         IF p.loc.doc.created_by # p.user
         THEN LET n == Notify(w, p, p.loc.doc.created_by, "info")
              IN St(n.w, Goto(n.p, "log"))
         ELSE St(w, Goto(p, "log"))
    [] p.pc = "log" ->
         St(SetDb(w, log_activity(w.db, p.user, "status_changed", "request",
                                  p.a.id, p.loc.doc.workspace_id)),
            Done(p, 200, {}))

delete_request(w, p) ==
  CASE p.pc = "start" -> Authenticate(w, p, "find")
    [] p.pc = "find" ->
         LET request == Find(w.db.requests, p.a.id)
         IN IF request.id = 0 THEN St(w, Done(p, 404, {}))
            ELSE St(w, [p EXCEPT !.loc.doc = request, !.pc = "find_ws"])
    [] p.pc = "find_ws" ->
         LET workspace == FindWs(w.db, p.loc.doc.workspace_id)
         IN IF workspace.id = 0 THEN St(w, Done(p, 500, {}))
            ELSE IF p.loc.doc.created_by # p.user /\ RoleOf(workspace, p.user) # "admin"
                 THEN St(w, Done(p, 403, {}))
                 ELSE St(w, Goto(p, "del_comments"))
    [] p.pc = "del_comments" ->
         St(SetDb(w, [w.db EXCEPT !.comments = {x \in @ : x.request_id # p.a.id}]),
            Goto(p, "del_request"))
    [] p.pc = "del_request" ->
         St(SetDb(w, [w.db EXCEPT !.requests = {x \in @ : x.id # p.a.id}]),
            Done(p, 200, {}))

\* ---------------------------------------------------------- comment routes
\* a.member is the user that an @mention in the content resolves to (0: none)
\* create_comment without the test that the mentioned user is not the author
create_comment_notifies_author(w, p) ==
  CASE p.pc = "start" -> Authenticate(w, p, "insert")
    [] p.pc = "insert" ->
         LET cid == NextId(w.db, "comments")
             doc == [id |-> cid, task_id |-> p.a.task, project_id |-> p.a.project,
                     request_id |-> p.a.request, user_id |-> p.user]
         IN St(SetDb(w, [w.db EXCEPT !.comments = @ \cup {doc}, !.seq["comments"] = cid]),
               [p EXCEPT !.loc.doc = doc, !.pc = "mentions"])
    [] p.pc = "mentions" ->
         IF p.a.member # 0 /\ Has(w.db.users, p.a.member)
         THEN LET n == Notify(w, p, p.a.member, "mention")
              IN St(n.w, Done(n.p, 200, {p.loc.doc}))
         ELSE St(w, Done(p, 200, {p.loc.doc}))

create_comment(w, p) ==
  CASE p.pc = "start" -> Authenticate(w, p, "insert")
    [] p.pc = "insert" ->
         LET cid == NextId(w.db, "comments")
             doc == [id |-> cid, task_id |-> p.a.task, project_id |-> p.a.project,
                     request_id |-> p.a.request, user_id |-> p.user]
         IN St(SetDb(w, [w.db EXCEPT !.comments = @ \cup {doc}, !.seq["comments"] = cid]),
               [p EXCEPT !.loc.doc = doc, !.pc = "mentions"])
    [] p.pc = "mentions" ->
         IF p.a.member # 0 /\ Has(w.db.users, p.a.member) /\ p.a.member # p.user
         THEN LET n == Notify(w, p, p.a.member, "mention")
              IN St(n.w, Done(n.p, 200, {p.loc.doc}))
         ELSE St(w, Done(p, 200, {p.loc.doc}))

\* the query parameters that are given (0: not given) select the comments
get_comments(w, p) ==
  CASE p.pc = "start" -> Authenticate(w, p, "body")
    [] p.pc = "body" ->
         St(w, Done(p, 200, {x \in w.db.comments :
                               /\ p.a.task = 0 \/ x.task_id = p.a.task
                               /\ p.a.project = 0 \/ x.project_id = p.a.project
                               /\ p.a.request = 0 \/ x.request_id = p.a.request}))

\* ------------------------------------------------------------- file routes
upload_file(w, p) ==
  CASE p.pc = "start" -> Authenticate(w, p, "find_ws")
    [] p.pc = "find_ws" ->
         IF ~IsMember(FindWs(w.db, p.a.ws), p.user) THEN St(w, Done(p, 403, {}))
         ELSE St(w, Goto(p, "insert"))
    [] p.pc = "insert" ->
         LET fid == NextId(w.db, "files")
             doc == [id |-> fid, workspace_id |-> p.a.ws, project_id |-> p.a.project,
                     task_id |-> p.a.task, uploaded_by |-> p.user, file_data |-> "base64"]
         IN St(SetDb(w, [w.db EXCEPT !.files = @ \cup {doc}, !.seq["files"] = fid]),
               [p EXCEPT !.loc.doc = Without(doc, "file_data"), !.pc = "log"])
    [] p.pc = "log" ->
         St(SetDb(w, log_activity(w.db, p.user, "uploaded", "file", p.loc.doc.id, p.a.ws)),
            Done(p, 200, {p.loc.doc}))

\* delete_file that deletes the file before it looks at the caller's role
delete_file_checks_late(w, p) ==
  CASE p.pc = "start" -> Authenticate(w, p, "find")
    [] p.pc = "find" ->
         LET file == Find(w.db.files, p.a.id)
         IN IF file.id = 0 THEN St(w, Done(p, 404, {}))
            ELSE St(w, [p EXCEPT !.loc.doc = file, !.pc = "delete"])
    [] p.pc = "delete" ->
         St(SetDb(w, [w.db EXCEPT !.files = {x \in @ : x.id # p.a.id}]),
            Goto(p, IF p.loc.doc.uploaded_by # p.user THEN "find_ws" ELSE "log"))
    [] p.pc = "find_ws" ->
         LET workspace == FindWs(w.db, p.loc.doc.workspace_id)
         IN IF workspace.id = 0 THEN St(w, Done(p, 500, {}))
            ELSE IF RoleOf(workspace, p.user) # "admin" THEN St(w, Done(p, 403, {}))
                 ELSE St(w, Goto(p, "log"))
    [] p.pc = "log" ->
         St(SetDb(w, log_activity(w.db, p.user, "deleted", "file", p.a.id,
                                  p.loc.doc.workspace_id)),
            Done(p, 200, {}))

delete_file(w, p) ==
  CASE p.pc = "start" -> Authenticate(w, p, "find")
    [] p.pc = "find" ->
         LET file == Find(w.db.files, p.a.id)
         IN IF file.id = 0 THEN St(w, Done(p, 404, {}))
            ELSE IF file.uploaded_by # p.user
                 THEN St(w, [p EXCEPT !.loc.doc = file, !.pc = "find_ws"])
                 ELSE St(w, [p EXCEPT !.loc.doc = file, !.pc = "delete"])
    [] p.pc = "find_ws" ->
         LET workspace == FindWs(w.db, p.loc.doc.workspace_id)
         IN IF workspace.id = 0 THEN St(w, Done(p, 500, {}))
            ELSE IF RoleOf(workspace, p.user) # "admin" THEN St(w, Done(p, 403, {}))
                 ELSE St(w, Goto(p, "delete"))
    [] p.pc = "delete" ->
         St(SetDb(w, [w.db EXCEPT !.files = {x \in @ : x.id # p.a.id}]), Goto(p, "log"))
    [] p.pc = "log" ->
         St(SetDb(w, log_activity(w.db, p.user, "deleted", "file", p.a.id,
                                  p.loc.doc.workspace_id)),
            Done(p, 200, {}))

\* find(query, {"file_data": 0})
get_files(w, p) ==
  CASE p.pc = "start" -> Authenticate(w, p, "body")
    [] p.pc = "body" ->
         St(w, Done(p, 200,
                 {Without(x, "file_data") :
                    x \in {y \in w.db.files :
                             /\ y.workspace_id = p.a.ws
                             /\ p.a.project = 0 \/ y.project_id = p.a.project
                             /\ p.a.task = 0 \/ y.task_id = p.a.task}}))

\* GET /files/{file_id}: the stored document, file_data included
get_file(w, p) ==
  CASE p.pc = "start" -> Authenticate(w, p, "find")
    [] p.pc = "find" ->
         LET file == Find(w.db.files, p.a.id)
         IN IF file.id = 0 THEN St(w, Done(p, 404, {})) ELSE St(w, Done(p, 200, {file}))

\* ------------------------------------------------- team, project and task views
\* the members of the workspace without their password, with role and counts
get_team(w, p) ==
  CASE p.pc = "start" -> Authenticate(w, p, "find_ws")
    [] p.pc = "find_ws" ->
         LET workspace == FindWs(w.db, p.a.ws)
         IN IF ~IsMember(workspace, p.user) THEN St(w, Done(p, 403, {}))
            ELSE St(w, [p EXCEPT !.loc.ws = workspace, !.pc = "members"])
    [] p.pc = "members" ->
         LET ids == {p.loc.ws.member_ids[i] : i \in DOMAIN p.loc.ws.member_ids}
             member(u) ==
               Merge(Without(u, "password"),
                     [role |-> IF u.id \in DOMAIN p.loc.ws.member_roles
                               THEN p.loc.ws.member_roles[u.id] ELSE "member",
                      stats |->
                        [projects |-> Cardinality({x \in w.db.projects :
                                         x.workspace_id = p.a.ws /\ u.id \in x.assigned_to}),
                         tasks |-> Cardinality({t \in w.db.tasks : t.assigned_to = u.id}),
                         completed_tasks |-> Cardinality({t \in w.db.tasks :
                                         t.assigned_to = u.id /\ t.status = "done"})]])
         IN St(w, Done(p, 200, {member(u) : u \in {x \in w.db.users : x.id \in ids}}))

get_project(w, p) ==
  CASE p.pc = "start" -> Authenticate(w, p, "find")
    [] p.pc = "find" ->
         LET project == Find(w.db.projects, p.a.id)
         IN IF project.id = 0 THEN St(w, Done(p, 404, {}))
            ELSE St(w, [p EXCEPT !.loc.doc = project, !.pc = "find_ws"])
    [] p.pc = "find_ws" ->
         IF ~IsMember(FindWs(w.db, p.loc.doc.workspace_id), p.user)
         THEN St(w, Done(p, 403, {}))
         ELSE St(w, Goto(p, "find_tasks"))
    [] p.pc = "find_tasks" ->
         St(w, [p EXCEPT !.loc.doc =
                   Merge(@, [tasks |-> {t \in w.db.tasks : t.project_id = p.a.id}]),
                 !.pc = "find_comments"])
    [] p.pc = "find_comments" ->
         St(w, [p EXCEPT !.loc.doc =
                   Merge(@, [comments |-> {c \in w.db.comments : c.project_id = p.a.id}]),
                 !.pc = "find_files"])
    [] p.pc = "find_files" ->
         St(w, Done(p, 200,
                 {Merge(p.loc.doc, [files |-> {f \in w.db.files : f.project_id = p.a.id}])}))

get_task(w, p) ==
  CASE p.pc = "start" -> Authenticate(w, p, "find")
    [] p.pc = "find" ->
         LET task == Find(w.db.tasks, p.a.id)
         IN IF task.id = 0 THEN St(w, Done(p, 404, {}))
            ELSE St(w, [p EXCEPT !.loc.doc = task, !.pc = "find_subtasks"])
    [] p.pc = "find_subtasks" ->
         St(w, [p EXCEPT !.loc.doc =
                   Merge(@, [subtasks |-> {x \in w.db.subtasks : x.task_id = p.a.id}]),
                 !.pc = "find_comments"])
    [] p.pc = "find_comments" ->
         St(w, [p EXCEPT !.loc.doc =
                   Merge(@, [comments |-> {c \in w.db.comments : c.task_id = p.a.id}]),
                 !.pc = "find_files"])
    [] p.pc = "find_files" ->
         St(w, Done(p, 200,
                 {Merge(p.loc.doc, [files |-> {f \in w.db.files : f.task_id = p.a.id}])}))

\* -------------------------------------------------------- analytics, search
TasksOfWs(d, wsid) ==
  {t \in d.tasks : \E x \in d.projects : x.workspace_id = wsid /\ x.id = t.project_id}

\* the dashboard that takes the finished tasks for the pending ones
DashboardOf_pending_done(workspace, projects, tasks) ==
  [total_projects |-> Cardinality(projects),
   total_tasks |-> Cardinality(tasks),
   pending_tasks |-> Cardinality({t \in tasks : t.status = "done"}),
   in_progress_tasks |-> Cardinality({t \in tasks : t.status = "in_progress"}),
   completed_tasks |-> Cardinality({t \in tasks : t.status = "done"}),
   total_members |-> Len(workspace.member_ids),
   tasks_by_status |->
     [todo |-> Cardinality({t \in tasks : t.status = "todo"}),
      in_progress |-> Cardinality({t \in tasks : t.status = "in_progress"}),
      review |-> Cardinality({t \in tasks : t.status = "review"}),
      done |-> Cardinality({t \in tasks : t.status = "done"})]]

\* the response of the dashboard computed from the lists that were read
DashboardOf(workspace, projects, tasks) ==
  [total_projects |-> Cardinality(projects),
   total_tasks |-> Cardinality(tasks),
   pending_tasks |-> Cardinality({t \in tasks : t.status = "todo"}),
   in_progress_tasks |-> Cardinality({t \in tasks : t.status = "in_progress"}),
   completed_tasks |-> Cardinality({t \in tasks : t.status = "done"}),
   total_members |-> Len(workspace.member_ids),
   tasks_by_status |->
     [todo |-> Cardinality({t \in tasks : t.status = "todo"}),
      in_progress |-> Cardinality({t \in tasks : t.status = "in_progress"}),
      review |-> Cardinality({t \in tasks : t.status = "review"}),
      done |-> Cardinality({t \in tasks : t.status = "done"})]]

\* find_one on workspaces, find on projects, find on tasks, then the counts
get_dashboard_stats(w, p) ==
  CASE p.pc = "start" -> Authenticate(w, p, "find_ws")
    [] p.pc = "find_ws" ->
         LET workspace == FindWs(w.db, p.a.ws)
         IN IF ~IsMember(workspace, p.user) THEN St(w, Done(p, 403, {}))
            ELSE St(w, [p EXCEPT !.loc.ws = workspace, !.pc = "find_projects"])
    [] p.pc = "find_projects" ->
         St(w, [p EXCEPT !.loc.doc =
                   [id |-> 0, projects |-> {x \in w.db.projects : x.workspace_id = p.a.ws}],
                 !.pc = "find_tasks"])
    [] p.pc = "find_tasks" ->
         LET tasks == {t \in w.db.tasks : \E x \in p.loc.doc.projects : x.id = t.project_id}
         IN St(w, Done(p, 200, {DashboardOf(p.loc.ws, p.loc.doc.projects, tasks)}))

\* every stored text is taken to match the query q
search(w, p) ==
  CASE p.pc = "start" -> Authenticate(w, p, "body")
    [] p.pc = "body" ->
         IF ~IsMember(FindWs(w.db, p.a.ws), p.user) THEN St(w, Done(p, 403, {}))
         ELSE St(w, Done(p, 200,
                {[projects |-> {x \in w.db.projects : x.workspace_id = p.a.ws},
                  tasks |-> TasksOfWs(w.db, p.a.ws),
                  notes |-> {x \in w.db.notes : x.workspace_id = p.a.ws},
                  requests |-> {x \in w.db.requests : x.workspace_id = p.a.ws}]}))

\* --------------------------------------------------------------- dispatch
Dispatch(w, p) ==
  CASE p.op = "signup" -> signup(w, p)
    [] p.op = "login" -> login(w, p)
    [] p.op = "refresh_token" -> refresh_token(w, p)
    [] p.op = "get_me" -> get_me(w, p)
    [] p.op = "update_me" -> update_me(w, p)
    [] p.op = "health_check" -> health_check(w, p)
    [] p.op = "create_workspace" -> create_workspace(w, p)
    [] p.op = "update_workspace" -> update_workspace(w, p)
    [] p.op = "delete_workspace" -> delete_workspace(w, p)
    [] p.op = "invite_member" -> invite_member(w, p)
    [] p.op = "remove_member" -> remove_member(w, p)
    [] p.op = "create_project" -> create_project(w, p)
    [] p.op = "get_projects" -> get_projects(w, p)
    [] p.op = "update_project" -> update_project(w, p)
    [] p.op = "delete_project" -> delete_project(w, p)
    [] p.op = "create_task" -> create_task(w, p)
    [] p.op = "get_tasks" -> get_tasks(w, p)
    [] p.op = "update_task" -> update_task(w, p)
    [] p.op = "update_task_status" -> update_task_status(w, p)
    [] p.op = "delete_task" -> delete_task(w, p)
    [] p.op = "create_subtask" -> create_subtask(w, p)
    [] p.op = "create_note" -> create_note(w, p)
    [] p.op = "get_notes" -> get_notes(w, p)
    [] p.op = "update_note" -> update_note(w, p)
    [] p.op = "delete_note" -> delete_note(w, p)
    [] p.op = "create_tag" -> create_tag(w, p)
    [] p.op = "get_tags" -> get_tags(w, p)
    [] p.op = "create_request" -> create_request(w, p)
    [] p.op = "get_requests" -> get_requests(w, p)
    [] p.op = "update_request" -> update_request(w, p)
    [] p.op = "update_request_status" -> update_request_status(w, p)
    [] p.op = "delete_request" -> delete_request(w, p)
    [] p.op = "create_comment" -> create_comment(w, p)
    [] p.op = "upload_file" -> upload_file(w, p)
    [] p.op = "get_comments" -> get_comments(w, p)
    [] p.op = "get_files" -> get_files(w, p)
    [] p.op = "delete_file" -> delete_file(w, p)
    [] p.op = "get_file" -> get_file(w, p)
    [] p.op = "get_team" -> get_team(w, p)
    [] p.op = "get_project" -> get_project(w, p)
    [] p.op = "get_task" -> get_task(w, p)
    [] p.op = "get_dashboard_stats" -> get_dashboard_stats(w, p)
    [] p.op = "search" -> search(w, p)

\* One step of a request. No handler catches the error of a store call:
\* when the call of step p.a.fail raises, the request ends there with 500
\* and what the earlier steps wrote stays ("": no call fails).
Step(w, p) == IF p.a.fail = p.pc THEN St(w, Done(p, 500, {})) ELSE Dispatch(w, p)

RECURSIVE Run(_, _)
\* a request served from its first step to its response with nothing between
Run(w, p) == IF p.pc = "done" THEN St(w, p) ELSE LET s == Step(w, p) IN Run(s.w, s.p)

World == [db |-> db, rl |-> rl, now |-> now]

\* how many documents a run of the model lets a collection ever hold
Cap(c) ==
  CASE c = "users" -> MaxUsers
    [] c = "workspaces" -> MaxWorkspaces
    [] c = "projects" -> MaxProjects
    [] c = "tasks" -> MaxTasks
    [] c = "tags" -> MaxTags
    [] OTHER -> MaxChildren

WithinCaps(d) == \A c \in Collections : d.seq[c] <= Cap(c)

RECURSIVE SumSeq(_, _)
SumSeq(f, S) == IF S = {} THEN 0 ELSE LET c == CHOOSE x \in S : TRUE
                                      IN f[c] + SumSeq(f, S \ {c})

\* the documents inserted so far, accounts aside
Inserted(d) == SumSeq(d.seq, Collections \ {"users"})

\* what the client sees of a finished request
Response(p) == [p EXCEPT !.loc = NoLoc, !.pc = "done"]

\* the middleware without the exemption of /health
rate_limit_middleware_all_paths(w, p) ==
  LET lim == check_rate_limit(w.rl, p.a.ip, w.now)
  IN IF ~lim.ok THEN St([w EXCEPT !.rl = lim.rl], Done(p, 429, {}))
     ELSE St([w EXCEPT !.rl = lim.rl], p)

\* every path but /health goes through check_rate_limit before its handler
rate_limit_middleware(w, p) ==
  IF p.op = "health_check" THEN St(w, p)
  ELSE LET lim == check_rate_limit(w.rl, p.a.ip, w.now)
       IN IF ~lim.ok THEN St([w EXCEPT !.rl = lim.rl], Done(p, 429, {}))
          ELSE St([w EXCEPT !.rl = lim.rl], p)

\* U.ack: the response is handed to the client before the next request is
\* served (action Ack); U.budget bounds the documents a run inserts,
\* U.attempts the signup and login attempts of one address within a window
\* and U.acts the entries of the activity log. U.mw: the requests pass the
\* rate limiting middleware; without it the requests served are those the
\* middleware admits, and the log of their times is left out.
Serve(U, op, tok, a) ==
  LET m == IF U.mw THEN rate_limit_middleware(World, NewRequest(op, tok, a))
           ELSE St(World, NewRequest(op, tok, a))
      r == Run(m.w, m.p)
  IN /\ U.ack => resp = Idle
     /\ WithinCaps(r.w.db)
     /\ Inserted(r.w.db) <= U.budget
     /\ \A ip \in IPs : Len(r.w.rl.login_attempts[ip]) <= U.attempts
     /\ Cardinality(r.w.db.activities) <= U.acts
     /\ db' = r.w.db
     /\ rl' = r.w.rl
     /\ resp' = Response(r.p)
     /\ UNCHANGED <<now, procs>>

\* the clients that may have a request in flight at the same time
Clients == {"c1", "c2"}

Init ==
  /\ db = DbInit
  /\ rl = RateLimiterInit
  /\ now = 0
  /\ resp = Idle
  /\ procs = EmptyBag

\* Requests in flight together: every await of a handler is a point where
\* the event loop may run another request. procs is the bag of requests
\* in flight, each at its next await. Advance runs request q up to its next
\* await; Begin takes a request in and runs it up to its first await
\* (a request that has not acted yet is no different from one not yet
\* sent); StepProc runs one of the requests in flight.
Advance(U, q, rest) ==
  LET s == Step(World, q)
  IN /\ WithinCaps(s.w.db)
     /\ Inserted(s.w.db) <= U.budget
     /\ \A ip \in IPs : Len(s.w.rl.login_attempts[ip]) <= U.attempts
     /\ Cardinality(s.w.db.activities) <= U.acts
     /\ db' = s.w.db
     /\ rl' = s.w.rl
     /\ IF s.p.pc = "done"
        THEN /\ U.ack => resp = Idle
             /\ resp' = Response(s.p)
             /\ procs' = rest
        ELSE /\ procs' = rest (+) SetToBag({s.p})
             /\ UNCHANGED resp
     /\ UNCHANGED now

Begin(U, op, tok, a) ==
  /\ BagCardinality(procs) < Cardinality(Clients)
  /\ Advance(U, NewRequest(op, tok, a), procs)

StepProc(U) == \E q \in BagToSet(procs) : Advance(U, q, procs (-) SetToBag({q}))

\* ---------------------------------------------------------------- actions
\* U gives the values a specification draws the requests' inputs from.
Signup(U) ==
  \E ip \in U.ips, e \in U.emails, pw \in U.pws :
    Serve(U, "signup", NoToken, [NoArgs EXCEPT !.ip = ip, !.email = e, !.pw = pw])

Login(U) ==
  \E ip \in U.ips, e \in U.emails, pw \in U.pws :
    Serve(U, "login", NoToken, [NoArgs EXCEPT !.ip = ip, !.email = e, !.pw = pw])

RefreshToken(U) ==
  \E rt \in U.rts : Serve(U, "refresh_token", NoToken, [NoArgs EXCEPT !.rt = rt])

HealthCheck(U) == \E tok \in U.toks : Serve(U, "health_check", tok, NoArgs)

GetMe(U) == \E tok \in U.toks : Serve(U, "get_me", tok, NoArgs)

\* /health and GET /auth/me from any of the addresses
HealthCheckFrom(U) ==
  \E ip \in U.ips : Serve(U, "health_check", NoToken, [NoArgs EXCEPT !.ip = ip])

GetMeFrom(U) ==
  \E ip \in U.ips, tok \in U.toks : Serve(U, "get_me", tok, [NoArgs EXCEPT !.ip = ip])

UpdateMe(U) ==
  \E tok \in U.toks, e \in U.emails \cup {""} :
    Serve(U, "update_me", tok, [NoArgs EXCEPT !.email = e])

CreateWorkspace(U) ==
  \E tok \in U.toks, n \in U.names :
    Serve(U, "create_workspace", tok, [NoArgs EXCEPT !.name = n])

UpdateWorkspace(U) ==
  \E tok \in U.toks, ws \in U.ws, n \in U.names :
    Serve(U, "update_workspace", tok, [NoArgs EXCEPT !.ws = ws, !.name = n])

DeleteWorkspace(U) ==
  \E tok \in U.toks, ws \in U.ws :
    Serve(U, "delete_workspace", tok, [NoArgs EXCEPT !.ws = ws])

InviteMember(U) ==
  \E tok \in U.toks, ws \in U.ws, e \in U.emails, role \in U.roles :
    Serve(U, "invite_member", tok, [NoArgs EXCEPT !.ws = ws, !.email = e, !.role = role])

RemoveMember(U) ==
  \E tok \in U.toks, ws \in U.ws, m \in U.users :
    Serve(U, "remove_member", tok, [NoArgs EXCEPT !.ws = ws, !.member = m])

CreateProject(U) ==
  \E tok \in U.toks, ws \in U.ws, n \in U.names, as \in U.assigned :
    Serve(U, "create_project", tok, [NoArgs EXCEPT !.ws = ws, !.name = n, !.assigned = as])

GetProjects(U) ==
  \E tok \in U.toks, ws \in U.ws : Serve(U, "get_projects", tok, [NoArgs EXCEPT !.ws = ws])

UpdateProject(U) ==
  \E tok \in U.toks, id \in U.ids, n \in U.newnames, as \in U.assigned :
    Serve(U, "update_project", tok, [NoArgs EXCEPT !.id = id, !.name = n, !.assigned = as])

DeleteProject(U) ==
  \E tok \in U.toks, id \in U.ids :
    Serve(U, "delete_project", tok, [NoArgs EXCEPT !.id = id])

CreateTask(U) ==
  \E tok \in U.toks, pr \in U.ids, n \in U.names, st \in U.statuses, m \in U.assignee :
    Serve(U, "create_task", tok,
          [NoArgs EXCEPT !.project = pr, !.name = n, !.status = st, !.member = m])

GetTasks(U) ==
  \E tok \in U.toks, pr \in U.ids \cup {0} :
    Serve(U, "get_tasks", tok, [NoArgs EXCEPT !.project = pr])

UpdateTask(U) ==
  \E tok \in U.toks, id \in U.ids, n \in U.newnames, st \in U.statuses, m \in U.assignee :
    Serve(U, "update_task", tok,
          [NoArgs EXCEPT !.id = id, !.name = n, !.status = st, !.member = m])

UpdateTaskStatus(U) ==
  \E tok \in U.toks, id \in U.ids, st \in U.newstatuses :
    Serve(U, "update_task_status", tok, [NoArgs EXCEPT !.id = id, !.status = st])

DeleteTask(U) ==
  \E tok \in U.toks, id \in U.ids : Serve(U, "delete_task", tok, [NoArgs EXCEPT !.id = id])

CreateSubtask(U) ==
  \E tok \in U.toks, t \in U.ids :
    Serve(U, "create_subtask", tok, [NoArgs EXCEPT !.task = t])

CreateNote(U) ==
  \E tok \in U.toks, ws \in U.ws, n \in U.names :
    Serve(U, "create_note", tok, [NoArgs EXCEPT !.ws = ws, !.name = n])

GetNotes(U) ==
  \E tok \in U.toks, ws \in U.ws : Serve(U, "get_notes", tok, [NoArgs EXCEPT !.ws = ws])

UpdateNote(U) ==
  \E tok \in U.toks, id \in U.ids, n \in U.newnames :
    Serve(U, "update_note", tok, [NoArgs EXCEPT !.id = id, !.name = n])

DeleteNote(U) ==
  \E tok \in U.toks, id \in U.ids : Serve(U, "delete_note", tok, [NoArgs EXCEPT !.id = id])

CreateTag(U) ==
  \E tok \in U.toks, ws \in U.ws, n \in U.names :
    Serve(U, "create_tag", tok, [NoArgs EXCEPT !.ws = ws, !.name = n])

GetTags(U) ==
  \E tok \in U.toks, ws \in U.ws : Serve(U, "get_tags", tok, [NoArgs EXCEPT !.ws = ws])

CreateRequest(U) ==
  \E tok \in U.toks, ws \in U.ws, n \in U.names :
    Serve(U, "create_request", tok, [NoArgs EXCEPT !.ws = ws, !.name = n])

GetRequests(U) ==
  \E tok \in U.toks, ws \in U.ws : Serve(U, "get_requests", tok, [NoArgs EXCEPT !.ws = ws])

UpdateRequest(U) ==
  \E tok \in U.toks, id \in U.ids, n \in U.newnames :
    Serve(U, "update_request", tok, [NoArgs EXCEPT !.id = id, !.name = n])

UpdateRequestStatus(U) ==
  \E tok \in U.toks, id \in U.ids, st \in U.reqstatuses :
    Serve(U, "update_request_status", tok, [NoArgs EXCEPT !.id = id, !.status = st])

DeleteRequest(U) ==
  \E tok \in U.toks, id \in U.ids :
    Serve(U, "delete_request", tok, [NoArgs EXCEPT !.id = id])

CreateComment(U) ==
  \E tok \in U.toks, t \in U.ids \cup {0}, pr \in U.ids \cup {0}, rq \in U.reqids \cup {0},
     m \in U.assignee :
    /\ Cardinality({x \in {<<"t", t>>, <<"p", pr>>, <<"r", rq>>} : x[2] # 0}) = 1
    /\ Serve(U, "create_comment", tok,
             [NoArgs EXCEPT !.task = t, !.project = pr, !.request = rq, !.member = m])

UploadFile(U) ==
  \E tok \in U.toks, ws \in U.ws, t \in U.ids \cup {0}, pr \in U.ids \cup {0} :
    /\ t = 0 \/ pr = 0
    /\ Serve(U, "upload_file", tok, [NoArgs EXCEPT !.ws = ws, !.task = t, !.project = pr])

DeleteFile(U) ==
  \E tok \in U.toks, id \in U.ids : Serve(U, "delete_file", tok, [NoArgs EXCEPT !.id = id])

GetFile(U) ==
  \E tok \in U.toks, id \in U.ids : Serve(U, "get_file", tok, [NoArgs EXCEPT !.id = id])

GetTeam(U) ==
  \E tok \in U.toks, ws \in U.ws : Serve(U, "get_team", tok, [NoArgs EXCEPT !.ws = ws])

GetProject(U) ==
  \E tok \in U.toks, id \in U.ids : Serve(U, "get_project", tok, [NoArgs EXCEPT !.id = id])

GetTask(U) ==
  \E tok \in U.toks, id \in U.ids : Serve(U, "get_task", tok, [NoArgs EXCEPT !.id = id])

GetComments(U) ==
  \E tok \in U.toks, t \in U.ids \cup {0}, pr \in U.ids \cup {0} :
    Serve(U, "get_comments", tok, [NoArgs EXCEPT !.task = t, !.project = pr])

GetFiles(U) ==
  \E tok \in U.toks, ws \in U.ws, t \in U.ids \cup {0}, pr \in U.ids \cup {0} :
    Serve(U, "get_files", tok, [NoArgs EXCEPT !.ws = ws, !.task = t, !.project = pr])

GetDashboardStats(U) ==
  \E tok \in U.toks, ws \in U.ws :
    Serve(U, "get_dashboard_stats", tok, [NoArgs EXCEPT !.ws = ws])

Search(U) ==
  \E tok \in U.toks, ws \in U.ws : Serve(U, "search", tok, [NoArgs EXCEPT !.ws = ws])

\* time.time() moves on by half a rate limit window
Tick ==
  /\ now + RATE_LIMIT_WINDOW \div 2 <= MaxTime * (RATE_LIMIT_WINDOW \div 2)
  /\ now' = now + RATE_LIMIT_WINDOW \div 2
  /\ UNCHANGED <<db, rl, resp, procs>>

\* time.time() moves on by the duration of a login block, once
Wait ==
  /\ now < LOGIN_BLOCK_DURATION
  /\ now' = now + LOGIN_BLOCK_DURATION
  /\ UNCHANGED <<db, rl, resp, procs>>

\* The code has no route that sets is_blocked: an account is blocked by a
\* write to the users collection from outside the API.
Ack ==
  /\ resp # Idle
  /\ resp' = Idle
  /\ UNCHANGED <<db, rl, now, procs>>

BlockUser ==
  \E u \in db.users :
    /\ ~u.is_blocked
    /\ db' = [db EXCEPT !.users = {IF x.id = u.id THEN [x EXCEPT !.is_blocked = TRUE]
                                   ELSE x : x \in @}]
    /\ resp' = Idle
    /\ UNCHANGED <<rl, now, procs>>

\* ---------------------------------------------------------- specifications
UBase ==
  [ack |-> TRUE, mw |-> FALSE, budget |-> MaxDocs, attempts |-> MaxAttempts, acts |-> MaxActs,
   ips |-> {"ip1"}, emails |-> {"a@x.com", "b@x.com"}, pws |-> {"Secure123A"},
   toks |-> {create_access_token(u) : u \in 1..MaxUsers}, rts |-> {},
   ws |-> 1..MaxUsers, ids |-> {1}, reqids |-> {1}, users |-> 1..MaxUsers, roles |-> {"member"},
   names |-> {"n1"}, newnames |-> {"n2"}, assigned |-> {{}}, assignee |-> {0},
   statuses |-> {"todo"}, newstatuses |-> {"done"}, reqstatuses |-> {"approved"}]

\* Authentication: every kind of token against the routes, accounts that
\* get blocked; one request is served at a time.
AuthTokens ==
  {NoToken, [sub |-> 1, type |-> "access", valid |-> FALSE],
   [sub |-> 1, type |-> "refresh", valid |-> FALSE]}
    \cup {create_access_token(u) : u \in 1..MaxUsers}
    \cup {create_refresh_token(u) : u \in 1..MaxUsers}

UAuth ==
  [UBase EXCEPT !.toks = AuthTokens, !.rts = AuthTokens, !.ws = {1},
                !.emails = {"a@x.com"}, !.budget = AuthDocs]

NextAuth ==
  \/ Signup(UAuth)
  \/ Login(UAuth)
  \/ RefreshToken(UAuth)
  \/ BlockUser
  \/ Ack
  \/ HealthCheck(UAuth)
  \/ GetMe(UAuth)
  \/ CreateWorkspace(UAuth)
  \/ UpdateWorkspace(UAuth)
  \/ DeleteWorkspace(UAuth)
  \/ InviteMember(UAuth)
  \/ RemoveMember(UAuth)
  \/ CreateProject(UAuth)
  \/ GetProjects(UAuth)
  \/ UpdateProject(UAuth)
  \/ DeleteProject(UAuth)
  \/ CreateTask(UAuth)
  \/ GetTasks(UAuth)
  \/ UpdateTask(UAuth)
  \/ UpdateTaskStatus(UAuth)
  \/ DeleteTask(UAuth)
  \/ CreateSubtask(UAuth)
  \/ CreateNote(UAuth)
  \/ GetNotes(UAuth)
  \/ UpdateNote(UAuth)
  \/ DeleteNote(UAuth)
  \/ CreateTag(UAuth)
  \/ GetTags(UAuth)
  \/ CreateRequest(UAuth)
  \/ GetRequests(UAuth)
  \/ UpdateRequest(UAuth)
  \/ UpdateRequestStatus(UAuth)
  \/ DeleteRequest(UAuth)
  \/ CreateComment(UAuth)
  \/ GetComments(UAuth)
  \/ UploadFile(UAuth)
  \/ GetFiles(UAuth)
  \/ GetDashboardStats(UAuth)
  \/ Search(UAuth)

SpecAuth == Init /\ [][NextAuth]_vars

\* the bearer token is a valid access token of an existing account
Resolves(d, tok) == tok.valid /\ tok.type = "access" /\ Has(d.users, tok.sub)

OpenOps == {"signup", "login", "health_check"}

\* C3: once an account has is_blocked set, a request to a protected route
\* with an access token of that account is rejected with 403, returns
\* nothing and changes no document of the store, and /auth/refresh with a
\* refresh token of that account issues no access token.
C3_BlockedRejected ==
  [][/\ (/\ resp'.op \notin OpenOps \cup {"refresh_token", "idle"}
         /\ Resolves(db, resp'.tok)
         /\ Get(db.users, resp'.tok.sub).is_blocked)
        => (resp'.status = 403 /\ resp'.out = {} /\ resp'.user = 0 /\ db' = db)
     /\ (/\ resp'.op = "refresh_token"
         /\ resp'.a.rt.valid
         /\ Has(db.users, resp'.a.rt.sub)
         /\ Get(db.users, resp'.a.rt.sub).is_blocked)
        => (resp'.status = 401 /\ resp'.out = {} /\ db' = db)]_vars

\* a blocked account's token has been turned away from a route that changes
\* the store, and its refresh token has been refused
C3_Witness ==
  /\ resp.op \in {"update_workspace", "create_project", "refresh_token"}
  /\ resp.status \in {401, 403}
  /\ LET t == IF resp.op = "refresh_token" THEN resp.a.rt ELSE resp.tok
     IN /\ t.valid
        /\ t.type = (IF resp.op = "refresh_token" THEN "refresh" ELSE "access")
        /\ Has(db.users, t.sub)
        /\ Get(db.users, t.sub).is_blocked
  /\ db.workspaces # {}

\* C4 as stated: every route other than signup, login and health answers
\* 401 or 403 and changes nothing when the bearer token is missing or does
\* not resolve to an existing user.
C4_Original ==
  [][(resp'.op \notin OpenOps \cup {"idle"} /\ ~Resolves(db, resp'.tok))
       => (resp'.status \in {401, 403} /\ db' = db)]_vars

\* C4 amended: the same for every route other than signup, login, health
\* and /auth/refresh (which takes a refresh token as a parameter and no
\* bearer token).
C4_BearerRequired ==
  [][(resp'.op \notin OpenOps \cup {"refresh_token", "idle"} /\ ~Resolves(db, resp'.tok))
       => (resp'.status \in {401, 403} /\ resp'.out = {} /\ db' = db)]_vars

\* a request without a token and one with a token of an unknown account
\* have been turned away while the store holds an account and a workspace
C4_Witness ==
  /\ resp.op \in {"update_workspace", "create_project", "get_me"}
  /\ resp.tok \in {NoToken, create_access_token(2)}
  /\ ~Resolves(db, resp.tok)
  /\ resp.status \in {401, 403}
  /\ db.users # {}

\* Access control: two accounts, the first one's default workspace, its
\* resources, and membership of the second account that comes and goes.
AccessDocs == 3

UAccess ==
  [UBase EXCEPT !.ws = {1}, !.roles = {"member", "admin"}, !.budget = AccessDocs]

NextAccess ==
  \/ Signup(UAccess)
  \/ Ack
  \/ InviteMember(UAccess)
  \/ RemoveMember(UAccess)
  \/ CreateProject(UAccess)
  \/ GetProjects(UAccess)
  \/ UpdateProject(UAccess)
  \/ DeleteProject(UAccess)
  \/ CreateTask(UAccess)
  \/ GetTasks(UAccess)
  \/ UpdateTask(UAccess)
  \/ UpdateTaskStatus(UAccess)
  \/ DeleteTask(UAccess)
  \/ CreateNote(UAccess)
  \/ GetNotes(UAccess)
  \/ UpdateNote(UAccess)
  \/ DeleteNote(UAccess)
  \/ GetTags(UAccess)
  \/ CreateRequest(UAccess)
  \/ GetRequests(UAccess)
  \/ UpdateRequest(UAccess)
  \/ UpdateRequestStatus(UAccess)
  \/ DeleteRequest(UAccess)
  \/ UploadFile(UAccess)
  \/ GetFiles(UAccess)
  \/ GetDashboardStats(UAccess)
  \/ Search(UAccess)

SpecAccess == Init /\ [][NextAccess]_vars

WsScopedOps ==
  {"create_project", "get_projects", "create_task", "get_tasks", "create_note",
   "get_notes", "upload_file", "get_files", "get_tags", "get_requests", "search",
   "get_dashboard_stats"}

\* the workspace whose resources request r is about (0: none)
TargetWs(d, r) ==
  IF r.op \in {"create_task", "get_tasks"} THEN WsOfProject(d, r.a.project) ELSE r.a.ws

\* C1: an authenticated user who is not in the member_ids of the workspace
\* a workspace-scoped request is about gets 403, is returned no data, and
\* changes no document.
C1_NonMemberForbidden ==
  [][(/\ resp'.op \in WsScopedOps
      /\ Resolves(db, resp'.tok)
      /\ Has(db.workspaces, TargetWs(db, resp'))
      /\ ~InSeq(resp'.tok.sub, Get(db.workspaces, TargetWs(db, resp')).member_ids))
       => (resp'.status = 403 /\ resp'.out = {} /\ db' = db)]_vars

ModifyOps ==
  {"update_project", "delete_project", "update_task", "update_task_status",
   "delete_task", "update_note", "delete_note", "update_request",
   "update_request_status", "delete_request"}

\* the stored entity that request r modifies or deletes (NoDoc: none)
TargetDoc(d, r) ==
  CASE r.op \in {"update_project", "delete_project"} -> Find(d.projects, r.a.id)
    [] r.op \in {"update_task", "update_task_status", "delete_task"} -> Find(d.tasks, r.a.id)
    [] r.op \in {"update_note", "delete_note"} -> Find(d.notes, r.a.id)
    [] OTHER -> Find(d.requests, r.a.id)

\* creator of the entity, or owner or admin of the workspace it belongs to
MayModify(d, r) ==
  LET e == TargetDoc(d, r)
      ws == FindWs(d, IF "workspace_id" \in DOMAIN e THEN e.workspace_id
                      ELSE WsOfProject(d, e.project_id))
  IN \/ e.created_by = r.tok.sub
     \/ ws.owner_id = r.tok.sub
     \/ RoleOf(ws, r.tok.sub) = "admin"

\* C2: a request to modify or delete an existing project, task, note or
\* request by an authenticated user who is neither its creator nor owner
\* or admin of its workspace is refused and changes nothing.
C2_OnlyCreatorOrAdmin ==
  [][(/\ resp'.op \in ModifyOps
      /\ Resolves(db, resp'.tok)
      /\ TargetDoc(db, resp').id # 0
      /\ ~MayModify(db, resp'))
       => (resp'.status = 403 /\ db' = db)]_vars

\* Membership under interleaving: two clients, two accounts, the requests
\* that write workspaces.
BeginSignup(U) ==
  \E ip \in U.ips, e \in U.emails, pw \in U.pws :
    Begin(U, "signup", NoToken, [NoArgs EXCEPT !.ip = ip, !.email = e, !.pw = pw])

BeginCreateWorkspace(U) ==
  \E tok \in U.toks, n \in U.names :
    Begin(U, "create_workspace", tok, [NoArgs EXCEPT !.name = n])

BeginUpdateWorkspace(U) ==
  \E tok \in U.toks, ws \in U.ws, n \in U.newnames :
    Begin(U, "update_workspace", tok, [NoArgs EXCEPT !.ws = ws, !.name = n])

BeginInviteMember(U) ==
  \E tok \in U.toks, ws \in U.ws, e \in U.emails, role \in U.roles :
    Begin(U, "invite_member", tok, [NoArgs EXCEPT !.ws = ws, !.email = e, !.role = role])

BeginRemoveMember(U) ==
  \E tok \in U.toks, ws \in U.ws, m \in U.users :
    Begin(U, "remove_member", tok, [NoArgs EXCEPT !.ws = ws, !.member = m])

UConc == [UBase EXCEPT !.ws = {1}, !.emails = {"b@x.com"}, !.acts = MaxChildren]

\* The first account has signed up and owns workspace 1; the second signs
\* up while other requests are in flight.
InitConc ==
  LET first == Run([db |-> DbInit, rl |-> RateLimiterInit, now |-> 0],
                   NewRequest("signup", NoToken,
                              [NoArgs EXCEPT !.email = "a@x.com", !.pw = "Secure123A"]))
  IN /\ db = first.w.db
     /\ rl = first.w.rl
     /\ now = 0
     /\ resp = Idle
     /\ procs = EmptyBag

NextConc ==
  \/ BeginSignup(UConc)
  \/ BeginCreateWorkspace(UConc)
  \/ BeginUpdateWorkspace(UConc)
  \/ BeginInviteMember(UConc)
  \/ BeginRemoveMember(UConc)
  \/ StepProc(UConc)
  \/ Ack

SpecConc == InitConc /\ [][NextConc]_vars

\* C5: every stored workspace's member_ids holds its owner_id, whatever
\* signup, create_workspace, invite_member, remove_member and
\* update_workspace requests have run and however they interleaved; and
\* an authenticated remove_member whose member_id is the owner of the
\* workspace is answered 400 and changes nothing, whoever the caller is.
C5_OwnerIsMember ==
  /\ [](\A ws \in db.workspaces : InSeq(ws.owner_id, ws.member_ids))
  /\ [][(/\ resp' # resp
         /\ resp'.op = "remove_member"
         /\ resp'.user # 0
         /\ Has(db.workspaces, resp'.a.ws)
         /\ Get(db.workspaces, resp'.a.ws).owner_id = resp'.a.member)
          => (resp'.status = 400 /\ db' = db)]_vars

\* a user who is neither owner nor member of the workspace has asked to
\* remove its owner and got 400, while another request was in flight
C5_Witness ==
  /\ resp.op = "remove_member"
  /\ resp.status = 400
  /\ resp.user = 2
  /\ Has(db.workspaces, resp.a.ws)
  /\ LET ws == Get(db.workspaces, resp.a.ws)
     IN /\ ws.owner_id = resp.a.member
        /\ ws.owner_id # resp.user
        /\ ~InSeq(resp.user, ws.member_ids)
  /\ procs # EmptyBag

\* C6: in every stored workspace the users that have an entry in
\* member_roles are in member_ids, also when invite_member and
\* remove_member for the same user interleave.
C6_RolesOfMembers ==
  \A ws \in db.workspaces : \A u \in DOMAIN ws.member_roles : InSeq(u, ws.member_ids)

\* remove_member of a user has finished while the invite_member that added
\* that user is still in flight after its update
C6_Witness ==
  /\ resp.op = "remove_member"
  /\ resp.status = 200
  /\ \E q \in BagToSet(procs) :
       /\ q.op = "invite_member"
       /\ q.pc \in {"notify", "log"}
       /\ q.loc.uid = resp.a.member
       /\ q.a.ws = resp.a.ws
  /\ Has(db.workspaces, resp.a.ws)
  /\ ~InSeq(resp.a.member, Get(db.workspaces, resp.a.ws).member_ids)

\* Cascading deletes: one account, its workspace, two projects and their
\* tasks, children of each kind; one request is served at a time.
CascadeDocs == 5

UCascade ==
  [UBase EXCEPT !.emails = {"a@x.com"}, !.toks = {create_access_token(1)}, !.ws = {1},
                !.ids = {1, 2}, !.reqids = {}, !.budget = CascadeDocs,
                !.acts = CascadeDocs, !.attempts = 1]

NextCascade ==
  \/ Signup(UCascade)
  \/ Ack
  \/ CreateProject(UCascade)
  \/ CreateTask(UCascade)
  \/ CreateSubtask(UCascade)
  \/ CreateComment(UCascade)
  \/ UploadFile(UCascade)
  \/ CreateTag(UCascade)
  \/ GetTasks(UCascade)
  \/ GetComments(UCascade)
  \/ GetFiles(UCascade)
  \/ DeleteTask(UCascade)
  \/ DeleteProject(UCascade)
  \/ DeleteWorkspace(UCascade)

SpecCascade == Init /\ [][NextCascade]_vars

\* what the listing request op with arguments a returns on store d
Listed(d, op, tok, a) ==
  Run([db |-> d, rl |-> rl, now |-> now], NewRequest(op, tok, a)).p.out

\* C7: when delete_project(P) has answered 200 the store holds no project
\* P and no task, comment or file whose project_id is P, and the task,
\* comment and file listings for project id P are empty.
C7_ProjectCascade ==
  [][(resp' # resp /\ resp'.op = "delete_project" /\ resp'.status = 200)
       => LET P == resp'.a.id
              W == Get(db.projects, P).workspace_id
          IN /\ ~Has(db'.projects, P)
             /\ \A t \in db'.tasks : t.project_id # P
             /\ \A c \in db'.comments : c.project_id # P
             /\ \A f \in db'.files : f.project_id # P
             /\ Listed(db', "get_tasks", resp'.tok, [NoArgs EXCEPT !.project = P]) = {}
             /\ Listed(db', "get_comments", resp'.tok, [NoArgs EXCEPT !.project = P]) = {}
             /\ Listed(db', "get_files", resp'.tok,
                       [NoArgs EXCEPT !.ws = W, !.project = P]) = {}]_vars

\* a project has been deleted and took along its task and its comment (no
\* delete_task ran), while the other project is still stored
C7_Witness ==
  /\ resp.op = "delete_project"
  /\ resp.status = 200
  /\ db.seq["tasks"] >= 1
  /\ db.tasks = {}
  /\ db.seq["comments"] >= 1
  /\ db.comments = {}
  /\ \A x \in db.activities : ~(x.action = "deleted" /\ x.entity_type = "task")
  /\ \E x \in db.projects : x.id # resp.a.id

\* C8: when delete_workspace(W) has answered 200 no document that belonged
\* to W remains: no project, request, note, file, activity, tag, favorite
\* or time entry of W, and no task of a project of W, no subtask of such a
\* task, no comment on a project, task or request of W.
C8_WorkspaceCascade ==
  [][(resp' # resp /\ resp'.op = "delete_workspace" /\ resp'.status = 200)
       => LET W == resp'.a.ws
              Ps == {x.id : x \in {y \in db.projects : y.workspace_id = W}}
              Ts == {x.id : x \in {y \in db.tasks : y.project_id \in Ps}}
              Rs == {x.id : x \in {y \in db.requests : y.workspace_id = W}}
          IN /\ \A c \in {"projects", "requests", "notes", "files", "activities", "tags",
                          "favorites", "time_entries"} :
                  \A x \in db'[c] : x.workspace_id # W
             /\ \A t \in db'.tasks : t.project_id \notin Ps
             /\ \A x \in db'.subtasks : x.task_id \notin Ts
             /\ \A x \in db'.comments :
                  x.project_id \notin Ps /\ x.task_id \notin Ts /\ x.request_id \notin Rs]_vars

\* C9: when delete_task(T) has answered 200 the store holds no task T and
\* no subtask, comment or file whose task_id is T.
C9_TaskCascade ==
  [][(resp' # resp /\ resp'.op = "delete_task" /\ resp'.status = 200)
       => LET T == resp'.a.id
          IN /\ ~Has(db'.tasks, T)
             /\ \A x \in db'.subtasks : x.task_id # T
             /\ \A x \in db'.comments : x.task_id # T
             /\ \A x \in db'.files : x.task_id # T]_vars

\* a task has been deleted and took along its subtask, while another task
\* is still stored
C9_Witness ==
  /\ resp.op = "delete_task"
  /\ resp.status = 200
  /\ db.seq["subtasks"] >= 1
  /\ db.subtasks = {}
  /\ \E x \in db.tasks : x.id # resp.a.id

\* Signup and login behind the rate limiter: one address, whose earlier
\* requests are either none or one short of the general limit; the last
\* response stays in resp until the next one.
ULogin ==
  [UBase EXCEPT !.ack = FALSE, !.mw = TRUE, !.attempts = LOGIN_RATE_LIMIT,
                !.emails = {"A@x.com", "b@x.com"}, !.pws = Passwords]

InitLogin ==
  /\ db = DbInit
  /\ \E n \in {0, RATE_LIMIT_REQUESTS - 1} :
       rl = [RateLimiterInit EXCEPT !.requests["ip1"] = [i \in 1..n |-> 0]]
  /\ now = 0
  /\ resp = Idle
  /\ procs = EmptyBag

NextLogin ==
  \/ Signup(ULogin)
  \/ Login(ULogin)
  \/ Tick

SpecLogin == InitLogin /\ [][NextLogin]_vars

\* the login that follows a successful signup from the same address with
\* the same email and password
LoginAfterSignup ==
  /\ resp.op = "signup"
  /\ resp.status = 200
  /\ resp'.op = "login"
  /\ resp'.a.ip = resp.a.ip
  /\ resp'.a.email = resp.a.email
  /\ resp'.a.pw = resp.a.pw

\* the login is answered 200 with an access token of the account that the
\* signup created
LoggedInAsSignedUp ==
  /\ resp'.status = 200
  /\ \E o \in resp'.out :
       /\ o.user_id = resp.user
       /\ get_current_user(db', o.access_token) = [status |-> 200, user |-> resp.user]

UBlock ==
  [UBase EXCEPT !.ack = FALSE, !.mw = TRUE, !.attempts = LOGIN_RATE_LIMIT,
                !.emails = {"a@x.com"}, !.pws = Passwords]

InitBlock ==
  /\ db = DbInit
  /\ \E n \in {0, RATE_LIMIT_REQUESTS - LOGIN_RATE_LIMIT} :
       rl = [RateLimiterInit EXCEPT !.requests["ip1"] = [i \in 1..n |-> 0]]
  /\ now = 0
  /\ resp = Idle
  /\ procs = EmptyBag

NextBlock ==
  \/ Signup(UBlock)
  \/ Login(UBlock)
  \/ Tick
  \/ Wait

SpecBlock == InitBlock /\ [][NextBlock]_vars

\* the signup and login attempts of address ip in the window that ends now
AttemptsInWindow(ip) ==
  Len(_clean_old_requests(rl.login_attempts[ip], RATE_LIMIT_WINDOW, now))

\* the requests of address ip in the window that ends now
RequestsInWindow(ip) ==
  Len(_clean_old_requests(rl.requests[ip], RATE_LIMIT_WINDOW, now))

\* a login attempt has been answered in this step
LoginAnswered == resp' # resp /\ resp'.op = "login"

\* the credentials of the login are those of a stored account that is not blocked
ValidCredentials(d, a) ==
  \E u \in d.users : /\ u.email = lower(a.email)
                     /\ verify_password(a.pw, u.password)
                     /\ ~u.is_blocked

\* the login attempt that follows LOGIN_RATE_LIMIT attempts within the window
\* is answered 429 and the address is blocked for LOGIN_BLOCK_DURATION from then
BlockStarts(ip) ==
  /\ resp'.status = 429
  /\ resp'.out = {}
  /\ ip \in DOMAIN rl'.blocked_ips
  /\ rl'.blocked_ips[ip] = now + LOGIN_BLOCK_DURATION

\* while the block lasts a login attempt is rejected and the block stays as it is
BlockHolds(ip) ==
  (ip \in DOMAIN rl.blocked_ips /\ now < rl.blocked_ips[ip])
    => (resp'.status # 200 /\ resp'.out = {} /\ rl'.blocked_ips = rl.blocked_ips)

\* the first attempt after the block has elapsed succeeds when its credentials are valid
BlockEnds(ip) ==
  (ip \in DOMAIN rl.blocked_ips /\ now >= rl.blocked_ips[ip] /\ ValidCredentials(db, resp'.a))
    => (resp'.status = 200 /\ resp'.out # {})

URate ==
  [UBase EXCEPT !.ack = FALSE, !.mw = TRUE, !.attempts = LOGIN_RATE_LIMIT,
                !.ips = IPs, !.emails = {"a@x.com"}, !.toks = {NoToken}]

\* signup and login are called from the first address only
UAttempt == [URate EXCEPT !.ips = {"ip1"}]

InitRate ==
  /\ db = DbInit
  /\ rl = [RateLimiterInit EXCEPT
             !.requests = [ip \in IPs |-> [i \in 1..(RATE_LIMIT_REQUESTS - 2) |-> 0]],
             !.login_attempts["ip1"] = [i \in 1..(LOGIN_RATE_LIMIT - 1) |-> 0]]
  /\ now = 0
  /\ resp = Idle
  /\ procs = EmptyBag

FreshWithin ==
  \A ip \in IPs :
    Cardinality({i \in DOMAIN rl'.requests[ip] : rl'.requests[ip][i] > 0}) <= MaxFresh

NextRate ==
  \/ HealthCheckFrom(URate) /\ FreshWithin
  \/ GetMeFrom(URate) /\ FreshWithin
  \/ Signup(UAttempt) /\ FreshWithin
  \/ Login(UAttempt) /\ FreshWithin
  \/ Tick

SpecRate == InitRate /\ [][NextRate]_vars

\* a request has been served in this step (time stands still while it is)
Served == now' = now

\* the entries of a counter that are inside the window that ends now
InWindow(s) == _clean_old_requests(s, RATE_LIMIT_WINDOW, now)

\* the counters of every address but ip are as they were
OthersUntouched(ip) ==
  \A o \in IPs \ {ip} :
    /\ rl'.requests[o] = rl.requests[o]
    /\ rl'.login_attempts[o] = rl.login_attempts[o]
    /\ (o \in DOMAIN rl'.blocked_ips) = (o \in DOMAIN rl.blocked_ips)
    /\ (o \in DOMAIN rl.blocked_ips) => rl'.blocked_ips[o] = rl.blocked_ips[o]

\* at most the limit of entries within the window, for each address and counter
WithinLimits ==
  \A ip \in IPs :
    /\ RequestsInWindow(ip) <= RATE_LIMIT_REQUESTS
    /\ AttemptsInWindow(ip) <= LOGIN_RATE_LIMIT

\* the general limit turns the request of ip away: blocked, or the window is full
TurnedAway(ip) ==
  is_blocked(rl, ip, now).ok \/ RequestsInWindow(ip) >= RATE_LIMIT_REQUESTS

\* C12 as stated: each address has at most RATE_LIMIT_REQUESTS admitted
\* requests and at most LOGIN_RATE_LIMIT admitted attempts within the
\* window, a request answered 429 is recorded in neither counter, and a
\* request changes no counter of another address.
C12_Original ==
  [][/\ WithinLimits'
     /\ Served =>
          LET ip == resp'.a.ip
          IN /\ OthersUntouched(ip)
             /\ resp'.status = 429 =>
                  /\ rl'.requests[ip] \in {rl.requests[ip], InWindow(rl.requests[ip])}
                  /\ rl'.login_attempts[ip] \in
                       {rl.login_attempts[ip], InWindow(rl.login_attempts[ip])}]_vars

\* C12 amended: the same, except that an attempt which the general limit has
\* admitted and check_login_limit then rejects is recorded in the general
\* counter and only kept out of the attempt counter.
C12_Counters ==
  [][/\ WithinLimits'
     /\ Served =>
          LET ip == resp'.a.ip
          IN /\ OthersUntouched(ip)
             /\ (resp'.status = 429 /\ TurnedAway(ip)) =>
                  /\ rl'.requests[ip] \in {rl.requests[ip], InWindow(rl.requests[ip])}
                  /\ rl'.login_attempts[ip] = rl.login_attempts[ip]
             /\ (resp'.status = 429 /\ ~TurnedAway(ip)) =>
                  /\ resp'.op \in {"signup", "login"}
                  /\ rl'.requests[ip] = Append(InWindow(rl.requests[ip]), now)
                  /\ rl'.login_attempts[ip] = InWindow(rl.login_attempts[ip])
             /\ resp'.op = "health_check" =>
                  /\ rl'.requests[ip] = rl.requests[ip]
                  /\ rl'.login_attempts[ip] = rl.login_attempts[ip]]_vars

\* the second address has filled its window and its next request has been
\* turned away, while the first address is blocked after too many attempts
C12_Witness ==
  /\ RequestsInWindow("ip2") = RATE_LIMIT_REQUESTS
  /\ resp.a.ip = "ip2"
  /\ resp.op = "get_me"
  /\ resp.status = 429
  /\ "ip1" \in DOMAIN rl.blocked_ips
  /\ "ip2" \notin DOMAIN rl.blocked_ips
  /\ AttemptsInWindow("ip1") = LOGIN_RATE_LIMIT

\* E-mail addresses under interleaving: the first account exists, two
\* clients sign up and change their address while the other's request is in
\* flight.
BeginUpdateMe(U) ==
  \E tok \in U.toks, e \in U.emails \cup {""} :
    Begin(U, "update_me", tok, [NoArgs EXCEPT !.email = e])

UEmail == [UBase EXCEPT !.emails = {"A@x.com", "b@x.com"}, !.attempts = MaxAttempts + 1]

NextEmail ==
  \/ BeginSignup(UEmail)
  \/ BeginUpdateMe(UEmail)
  \/ StepProc(UEmail)
  \/ Ack

SpecEmail == InitConc /\ [][NextEmail]_vars

\* no two user records hold the same e-mail address
UniqueEmails == \A u1, u2 \in db.users : u1.email = u2.email => u1 = u2

\* a signup or update_me in flight is at its look-up or at its write, and
\* the address it names is held by another user
NamesHeldEmail(q) ==
  /\ q.op \in {"signup", "update_me"}
  /\ q.pc \in {"find_existing", "insert_user", "update"}
  /\ q.a.email # ""
  /\ EmailTaken(db, lower(q.a.email), q.user)

\* C13: no two user records hold the same e-mail address, however signups
\* and update_me requests interleave; and a signup or update_me naming an
\* address that another user holds is answered 400 and changes no user and
\* no workspace.
C13_UniqueEmail ==
  /\ UniqueEmails
  /\ \A q \in BagToSet(procs) :
       NamesHeldEmail(q) =>
         LET s == Step(World, q)
         IN s.p.pc = "done" /\ s.p.status = 400 /\ s.w.db = db

\* Tags under interleaving: the first account exists and two clients
\* create tags of its workspace while the other's request is in flight.
BeginCreateTag(U) ==
  \E tok \in U.toks, ws \in U.ws, n \in U.names :
    Begin(U, "create_tag", tok, [NoArgs EXCEPT !.ws = ws, !.name = n])

UTag == [UBase EXCEPT !.ws = {1}, !.names = Names, !.budget = MaxTags + 1]

NextTag ==
  \/ BeginCreateTag(UTag)
  \/ StepProc(UTag)
  \/ Ack

SpecTag == InitConc /\ [][NextTag]_vars

\* no two tags of a workspace have the same name
UniqueTags ==
  \A t1, t2 \in db.tags :
    (t1.workspace_id = t2.workspace_id /\ t1.name = t2.name) => t1 = t2

\* a create_tag in flight is at its look-up or at its write, and a tag of
\* its name and workspace is stored
NamesStoredTag(q) ==
  /\ q.op = "create_tag"
  /\ q.pc \in {"find_existing", "insert"}
  /\ \E x \in db.tags : x.name = q.a.name /\ x.workspace_id = q.a.ws

\* C14: no two tags of a workspace have the same name, however create_tag
\* requests interleave; and a create_tag for a name that a tag of the
\* workspace has is answered 400 and adds no tag.
C14_UniqueTag ==
  /\ UniqueTags
  /\ \A q \in BagToSet(procs) :
       NamesStoredTag(q) =>
         LET s == Step(World, q)
         IN s.p.pc = "done" /\ s.p.status = 400 /\ s.w.db = db

\* the token is not an access token that verifies: it is a refresh token,
\* or it is expired or malformed
NotAccess(tok) == tok # NoToken /\ (tok.type = "refresh" \/ ~tok.valid)

\* the token is not a refresh token that verifies
NotRefresh(tok) == tok # NoToken /\ (tok.type = "access" \/ ~tok.valid)

\* C15: a protected route called with a refresh token, or with an expired
\* or malformed token, as its bearer is answered 401, and so is
\* /auth/refresh called with an access token or with an expired or
\* malformed token; the answer carries no token and nothing stored changes.
C15_TokenTypes ==
  [][(resp' # resp) =>
       /\ (resp'.op \notin OpenOps \cup {"refresh_token"} /\ NotAccess(resp'.tok))
            => (resp'.status = 401 /\ resp'.out = {} /\ db' = db)
       /\ (resp'.op = "refresh_token" /\ NotRefresh(resp'.a.rt))
            => (resp'.status = 401 /\ resp'.out = {} /\ db' = db)]_vars

\* the access token of an existing account that is not blocked has been
\* presented to /auth/refresh and refused
C15_Witness ==
  /\ resp.op = "refresh_token"
  /\ resp.a.rt = create_access_token(1)
  /\ Has(db.users, 1)
  /\ ~Get(db.users, 1).is_blocked
  /\ resp.status = 401

\* Permissions: both accounts exist, each owning its default workspace; the
\* second account is invited to the first one's workspace as member or as
\* admin and removed again, while both create, change and delete what the
\* workspace holds; one request is served at a time.
UPerm ==
  [UBase EXCEPT !.ws = {1}, !.emails = {"b@x.com"}, !.roles = {"member", "admin"},
                !.budget = PermDocs, !.acts = PermDocs]

InitPerm ==
  LET w0 == [db |-> DbInit, rl |-> RateLimiterInit, now |-> 0]
      first == Run(w0, NewRequest("signup", NoToken,
                                  [NoArgs EXCEPT !.email = "a@x.com", !.pw = "Secure123A"]))
      second == Run(first.w, NewRequest("signup", NoToken,
                                  [NoArgs EXCEPT !.email = "b@x.com", !.pw = "Secure123A"]))
  IN /\ db = second.w.db
     /\ rl = second.w.rl
     /\ now = 0
     /\ resp = Idle
     /\ procs = EmptyBag

NextPerm ==
  \/ InviteMember(UPerm)
  \/ RemoveMember(UPerm)
  \/ UpdateWorkspace(UPerm)
  \/ DeleteWorkspace(UPerm)
  \/ CreateProject(UPerm)
  \/ GetProjects(UPerm)
  \/ DeleteProject(UPerm)
  \/ CreateNote(UPerm)
  \/ CreateRequest(UPerm)
  \/ GetRequests(UPerm)
  \/ DeleteRequest(UPerm)
  \/ UploadFile(UPerm)
  \/ DeleteFile(UPerm)
  \/ GetDashboardStats(UPerm)
  \/ Search(UPerm)
  \/ Ack

SpecPerm == InitPerm /\ [][NextPerm]_vars

\* C16: a request that is answered 403 leaves every collection of the
\* store as it was before the request.
C16_ForbiddenChangesNothing ==
  [][(resp' # resp /\ resp'.status = 403) => db' = db]_vars

\* a member without the admin role has asked to delete a file that another
\* user uploaded and has been answered 403
C16_Witness ==
  /\ resp.op = "delete_file"
  /\ resp.status = 403
  /\ Has(db.files, resp.a.id)
  /\ Get(db.files, resp.a.id).uploaded_by # resp.user
  /\ IsMember(FindWs(db, Get(db.files, resp.a.id).workspace_id), resp.user)

\* the modifications and deletions at the level of a workspace
AdminOps ==
  {"update_workspace", "delete_workspace", "invite_member", "remove_member",
   "delete_project", "delete_request", "delete_file"}

\* the workspace that the request r is about (NoWs: none, or its target is not stored)
AdminTarget(d, r) ==
  LET e == CASE r.op = "delete_project" -> Find(d.projects, r.a.id)
             [] r.op = "delete_request" -> Find(d.requests, r.a.id)
             [] r.op = "delete_file" -> Find(d.files, r.a.id)
             [] OTHER -> [id |-> r.a.ws, workspace_id |-> r.a.ws]
  IN IF e.id = 0 THEN NoWs ELSE FindWs(d, e.workspace_id)

\* the answers of a request that was permitted
Succeeds(r) ==
  IF r.op = "invite_member" THEN r.status \in {200, 400, 404} ELSE r.status = 200

\* an authenticated request of AdminOps about a stored workspace has been
\* answered, remove_member not naming the owner
AdminRequest ==
  /\ resp' # resp
  /\ resp'.op \in AdminOps
  /\ Resolves(db, resp'.tok)
  /\ AdminTarget(db, resp').id # 0
  /\ resp'.op = "remove_member" => resp'.a.member # AdminTarget(db, resp').owner_id

\* the user owns the workspace or has the admin role in it
OwnerOrAdmin(ws, uid) == ws.owner_id = uid \/ RoleOf(ws, uid) = "admin"

\* C17 as stated: the owner of a workspace and every user with the admin
\* role in it is permitted update_workspace, delete_workspace,
\* invite_member, remove_member of a non-owner and the deletion of any
\* project, request or file of the workspace; none is answered 403.
C17_Original ==
  [][(AdminRequest /\ OwnerOrAdmin(AdminTarget(db, resp'), resp'.tok.sub))
       => Succeeds(resp')]_vars

\* C17 amended: the same for every operation but delete_workspace, which is
\* permitted to the owner only: an admin who is not the owner is answered
\* 403 and the workspace stays.
C17_AdminPermitted ==
  [][AdminRequest =>
       LET ws == AdminTarget(db, resp')
           uid == resp'.tok.sub
       IN /\ (OwnerOrAdmin(ws, uid) /\ resp'.op # "delete_workspace") => Succeeds(resp')
          /\ (ws.owner_id = uid /\ resp'.op = "delete_workspace") => Succeeds(resp')
          /\ (ws.owner_id # uid /\ resp'.op = "delete_workspace")
               => (resp'.status = 403 /\ db' = db)]_vars

\* an admin who is not the owner has deleted a file that the owner uploaded
C17_Witness ==
  /\ resp.op = "delete_file"
  /\ resp.status = 200
  /\ Has(db.workspaces, 1)
  /\ Get(db.workspaces, 1).owner_id # resp.user
  /\ RoleOf(Get(db.workspaces, 1), resp.user) = "admin"
  /\ \E x \in db.activities :
       /\ x.action = "uploaded" /\ x.entity_type = "file" /\ x.entity_id = resp.a.id
       /\ x.user_id = Get(db.workspaces, 1).owner_id
       /\ x.workspace_id = 1

\* the stored projects of workspace wsid and the stored tasks of those projects
StoredProjects(wsid) == {x \in db.projects : x.workspace_id = wsid}

StoredTasks(wsid) == {t \in db.tasks : t.project_id \in {x.id : x \in StoredProjects(wsid)}}

\* C19: the dashboard that a member of workspace W is answered reports as
\* total_projects the number of stored projects of W, as total_tasks the
\* number of stored tasks of those projects and as pending_tasks the number
\* of those tasks with status todo.
C19_DashboardCounts ==
  [][(/\ resp' # resp
      /\ resp'.op = "get_dashboard_stats"
      /\ Resolves(db, resp'.tok)
      /\ IsMember(FindWs(db, resp'.a.ws), resp'.tok.sub))
       => /\ resp'.status = 200
          /\ \E o \in resp'.out :
               /\ resp'.out = {o}
               /\ o.total_projects = Cardinality(StoredProjects(resp'.a.ws))
               /\ o.total_tasks = Cardinality(StoredTasks(resp'.a.ws))
               /\ o.pending_tasks =
                    Cardinality({t \in StoredTasks(resp'.a.ws) : t.status = "todo"})]_vars

\* one project and one task of default status are stored for the workspace
\* and the dashboard has reported 1, 1 and 1
C19_Witness ==
  /\ resp.op = "get_dashboard_stats"
  /\ resp.status = 200
  /\ Cardinality(StoredProjects(resp.a.ws)) = 1
  /\ Cardinality(StoredTasks(resp.a.ws)) = 1
  /\ \A t \in StoredTasks(resp.a.ws) : t.status = "todo"
  /\ \E o \in resp.out :
       o.total_projects = 1 /\ o.total_tasks = 1 /\ o.pending_tasks = 1

\* The dashboard under interleaving: the first account has a project, and
\* two clients create tasks, change their status, delete them and ask for
\* the dashboard while the other's request is in flight.
BeginCreateTask(U) ==
  \E tok \in U.toks, pr \in U.ids, n \in U.names, st \in U.statuses, m \in U.assignee :
    Begin(U, "create_task", tok,
          [NoArgs EXCEPT !.project = pr, !.name = n, !.status = st, !.member = m])

BeginUpdateTaskStatus(U) ==
  \E tok \in U.toks, id \in U.ids, st \in U.newstatuses :
    Begin(U, "update_task_status", tok, [NoArgs EXCEPT !.id = id, !.status = st])

BeginDeleteTask(U) ==
  \E tok \in U.toks, id \in U.ids : Begin(U, "delete_task", tok, [NoArgs EXCEPT !.id = id])

BeginGetDashboardStats(U) ==
  \E tok \in U.toks, ws \in U.ws :
    Begin(U, "get_dashboard_stats", tok, [NoArgs EXCEPT !.ws = ws])

UDash ==
  [UBase EXCEPT !.ws = {1}, !.toks = {create_access_token(1)}, !.ids = {1},
                !.statuses = {"todo", "review"},
                !.newstatuses = {"done", "cancelled", "archived"},
                !.budget = MaxTasks + 2, !.acts = MaxTasks + 2]

InitDash ==
  LET w0 == [db |-> DbInit, rl |-> RateLimiterInit, now |-> 0]
      first == Run(w0, NewRequest("signup", NoToken,
                                  [NoArgs EXCEPT !.email = "a@x.com", !.pw = "Secure123A"]))
      project == Run(first.w, NewRequest("create_project", create_access_token(1),
                                  [NoArgs EXCEPT !.ws = 1, !.name = "n1"]))
  IN /\ db = project.w.db
     /\ rl = project.w.rl
     /\ now = 0
     /\ resp = Idle
     /\ procs = EmptyBag

NextDash ==
  \/ BeginCreateTask(UDash)
  \/ BeginUpdateTaskStatus(UDash)
  \/ BeginDeleteTask(UDash)
  \/ BeginGetDashboardStats(UDash)
  \/ StepProc(UDash)
  \/ Ack

SpecDash == InitDash /\ [][NextDash]_vars

\* the tasks that the dashboard request q counts: those of the projects it has read
Counted(q) == {t \in db.tasks : \E x \in q.loc.doc.projects : x.id = t.project_id}

\* C18: in every dashboard response total_tasks is the sum of
\* pending_tasks, in_progress_tasks, completed_tasks and the number of
\* counted tasks with status review or cancelled, the counts being taken
\* from the one list of tasks the request has read, whatever other requests
\* are in flight.
C18_DashboardSum ==
  [][(resp' # resp /\ resp'.op = "get_dashboard_stats" /\ resp'.status = 200) =>
       \E q \in BagToSet(procs), o \in resp'.out :
         /\ q.op = "get_dashboard_stats" /\ q.pc = "find_tasks" /\ q.a = resp'.a
         /\ o.total_tasks = Cardinality(Counted(q))
         /\ o.total_tasks =
              o.pending_tasks + o.in_progress_tasks + o.completed_tasks
                + Cardinality({t \in Counted(q) : t.status \in {"review", "cancelled"}})]_vars

\* the dashboard has counted two tasks, one of them under review or
\* cancelled, while another request was in flight
C18_Witness ==
  /\ resp.op = "get_dashboard_stats"
  /\ resp.status = 200
  /\ BagCardinality(procs) > 0
  /\ \E o \in resp.out :
       /\ o.total_tasks = 2
       /\ o.pending_tasks + o.in_progress_tasks + o.completed_tasks = 1

\* Listings: the first account has a project; a second account signs up and
\* is invited; they create a task in the project, upload a file to the
\* workspace, the project or the task, and ask for the team, the files, the
\* project and the task.
UView ==
  [UBase EXCEPT !.ws = {1}, !.emails = {"b@x.com"}, !.ids = {1},
                !.budget = ViewDocs, !.acts = ViewDocs]

NextView ==
  \/ Signup(UView)
  \/ InviteMember(UView)
  \/ CreateTask(UView)
  \/ UploadFile(UView)
  \/ GetFiles(UView)
  \/ GetFile(UView)
  \/ GetTeam(UView)
  \/ GetProject(UView)
  \/ GetTask(UView)
  \/ Ack

SpecView == InitDash /\ [][NextView]_vars

\* the responses that carry a list of users or of files
ListOps == {"get_team", "get_files", "get_project", "get_task"}

\* neither the document nor a file of the list embedded in it carries a
\* password or a file_data field
Clean(o) ==
  /\ "password" \notin DOMAIN o
  /\ "file_data" \notin DOMAIN o
  /\ "files" \in DOMAIN o => \A f \in o.files : "file_data" \notin DOMAIN f

\* C20: no response of the team listing, the files listing, get_project or
\* get_task carries a user's password hash or a file's file_data, in its
\* documents or in the files embedded in them.
C20_NoSecretsListed ==
  (resp.op \in ListOps /\ resp.status = 200) => \A o \in resp.out : Clean(o)

\* C21 as stated: a stored activity record is never modified or removed;
\* the set of activity records only grows.
C21_Original == [][db.activities \subseteq db'.activities]_vars

\* C21 amended: the same for every operation but delete_workspace, which
\* removes the activity records of the workspace it deletes and no other.
C21_ActivityLog ==
  [][IF resp' # resp /\ resp'.op = "delete_workspace" /\ resp'.status = 200
     THEN db'.activities = {x \in db.activities : x.workspace_id # resp'.a.ws}
     ELSE db.activities \subseteq db'.activities]_vars

\* a workspace in which a project had been created and logged has been
\* deleted, and no activity record of it is left
C21_Witness ==
  /\ resp.op = "delete_workspace"
  /\ resp.status = 200
  /\ db.seq["projects"] > 0
  /\ \A x \in db.activities : x.workspace_id # resp.a.ws

\* C22: a request to /health is served whatever the state of the rate
\* limiter, blocked or over the general limit included, and leaves the
\* requests, login_attempts and blocked_ips of the rate limiter as they were.
C22_HealthBypass ==
  [][(Served /\ resp'.op = "health_check") =>
       /\ resp'.status = 200
       /\ rl'.requests = rl.requests
       /\ rl'.login_attempts = rl.login_attempts
       /\ rl'.blocked_ips = rl.blocked_ips]_vars

\* /health has been answered 200 to an address that is blocked
C22_Witness ==
  /\ resp.op = "health_check"
  /\ resp.status = 200
  /\ is_blocked(rl, resp.a.ip, now).ok
  /\ TurnedAway(resp.a.ip)

\* Invitations: two accounts exist; either invites, by the address of an
\* account or by an address nobody holds, with or without a role, and
\* removes members.
UInvite ==
  [UBase EXCEPT !.ws = {1, 2}, !.emails = {"a@x.com", "b@x.com", "c@x.com"},
                !.roles = {"", "admin", "viewer"}, !.budget = PermDocs, !.acts = PermDocs]

NextInvite ==
  \/ InviteMember(UInvite)
  \/ RemoveMember(UInvite)
  \/ GetProjects(UInvite)
  \/ Ack

SpecInvite == InitPerm /\ [][NextInvite]_vars

\* the accounts that hold the address the invitation names
Invited(email) == {u.id : u \in {x \in db.users : x.email = lower(email)}}

\* the answer that user uid gets when listing the projects of workspace wsid
ListingAnswer(w, uid, wsid) ==
  Run(w, NewRequest("get_projects", create_access_token(uid),
                    [NoArgs EXCEPT !.ws = wsid])).p.status

\* C23: when the owner or an admin of workspace W invites by e-mail an
\* existing user who is not a member, the request succeeds, the user is
\* then in member_ids exactly once with the invited role (member when none
\* is given), has one new unread notification and has access to W; an
\* unknown address is answered 404, a current member 400, W unchanged.
C23_Invite ==
  [][(/\ resp' # resp
      /\ resp'.op = "invite_member"
      /\ Resolves(db, resp'.tok)
      /\ FindWs(db, resp'.a.ws).id # 0
      /\ OwnerOrAdmin(FindWs(db, resp'.a.ws), resp'.tok.sub))
     => LET W == FindWs(db, resp'.a.ws)
            After == FindWs(db', resp'.a.ws)
            who == Invited(resp'.a.email)
        IN /\ who = {} => (resp'.status = 404 /\ After = W /\ db' = db)
           /\ \A uid \in who :
                IF InSeq(uid, W.member_ids)
                THEN resp'.status = 400 /\ After = W /\ db' = db
                ELSE /\ resp'.status = 200
                     /\ Cardinality({i \in DOMAIN After.member_ids :
                                       After.member_ids[i] = uid}) = 1
                     /\ Len(After.member_ids) = Len(W.member_ids) + 1
                     /\ RoleOf(After, uid) =
                          (IF resp'.a.role = "" THEN "member" ELSE resp'.a.role)
                     /\ resp'.notified = <<uid>>
                     /\ [user_id |-> uid, type |-> "info", read |-> FALSE]
                          \in db'.notifications
                     /\ db.notifications \subseteq db'.notifications
                     /\ ListingAnswer(World, uid, W.id) = 403
                     /\ ListingAnswer(World', uid, W.id) = 200]_vars

\* the second account has been invited to the first one's workspace without
\* a role and is now a member of it with the role member
C23_Witness ==
  /\ resp.op = "invite_member"
  /\ resp.status = 200
  /\ resp.a.role = ""
  /\ resp.user = 1
  /\ InSeq(2, FindWs(db, 1).member_ids)
  /\ RoleOf(FindWs(db, 1), 2) = "member"
  /\ \E n \in db.notifications : n.user_id = 2 /\ ~n.read

\* Updates under interleaving: a project and a task of it exist, and two
\* clients update either with different payloads while the other's update
\* is in flight.
BeginUpdateProject(U) ==
  \E tok \in U.toks, id \in U.ids, n \in U.newnames, as \in U.assigned :
    Begin(U, "update_project", tok, [NoArgs EXCEPT !.id = id, !.name = n, !.assigned = as])

BeginUpdateTask(U) ==
  \E tok \in U.toks, id \in U.ids, n \in U.newnames, st \in U.statuses, m \in U.assignee :
    Begin(U, "update_task", tok,
          [NoArgs EXCEPT !.id = id, !.name = n, !.status = st, !.member = m])

UUpdate ==
  [UBase EXCEPT !.toks = {create_access_token(1)}, !.ids = {1},
                !.newnames = {"n2", "n3"}, !.statuses = {"todo", "done"},
                !.assigned = {{}, {1}}, !.budget = UpdateDocs, !.acts = UpdateDocs]

InitUpdate ==
  LET w0 == [db |-> DbInit, rl |-> RateLimiterInit, now |-> 0]
      first == Run(w0, NewRequest("signup", NoToken,
                                  [NoArgs EXCEPT !.email = "a@x.com", !.pw = "Secure123A"]))
      project == Run(first.w, NewRequest("create_project", create_access_token(1),
                                  [NoArgs EXCEPT !.ws = 1, !.name = "n1"]))
      task == Run(project.w, NewRequest("create_task", create_access_token(1),
                                  [NoArgs EXCEPT !.project = 1, !.name = "n1",
                                                 !.status = "todo"]))
  IN /\ db = task.w.db
     /\ rl = task.w.rl
     /\ now = 0
     /\ resp = Idle
     /\ procs = EmptyBag

NextUpdate ==
  \/ BeginUpdateProject(UUpdate)
  \/ BeginUpdateTask(UUpdate)
  \/ StepProc(UUpdate)
  \/ Ack

SpecUpdate == InitUpdate /\ [][NextUpdate]_vars

\* the fields of a stored task, and of a stored project, that an update writes
TaskFields(t) == <<t.title, t.status, t.assigned_to>>

ProjectFields(x) == <<x.name, x.assigned_to>>

\* the same fields as the body of the request q carries them
TaskPayload(q) == <<q.a.name, q.a.status, q.a.member>>

ProjectPayload(q) == <<q.a.name, q.a.assigned>>

\* the request q is an update of document id that is about to write
Writing(q, op, id) == q.op = op /\ q.pc = "update" /\ q.a.id = id

\* the request q is an update of document id that has written
HasWritten(q, op, id) == q.op = op /\ q.pc \in {"find_project", "log", "notify"} /\ q.a.id = id

\* C24: whenever the updatable fields of a task or a project change, they
\* become, in full, the payload of one update request in flight for that
\* document, the one that writes in this step; so after two concurrent
\* updates the fields are those of the request that wrote last, never a
\* mix of both.
C24_LastWriterWins ==
  [][/\ \A t \in db.tasks, u \in db'.tasks :
          (u.id = t.id /\ TaskFields(u) # TaskFields(t)) =>
             \E q \in BagToSet(procs) :
               Writing(q, "update_task", t.id) /\ TaskFields(u) = TaskPayload(q)
     /\ \A x \in db.projects, y \in db'.projects :
          (y.id = x.id /\ ProjectFields(y) # ProjectFields(x)) =>
             \E q \in BagToSet(procs) :
               Writing(q, "update_project", x.id) /\ ProjectFields(y) = ProjectPayload(q)]_vars

\* two updates of the same task with payloads that differ in title and status
\* have both written, and the task carries the payload of one of them
C24_Witness ==
  \E q1, q2 \in BagToSet(procs) :
    /\ HasWritten(q1, "update_task", 1)
    /\ HasWritten(q2, "update_task", 1)
    /\ q1.a.name # q2.a.name
    /\ q1.a.status # q2.a.status
    /\ \E t \in db.tasks : t.id = 1 /\ TaskFields(t) = TaskPayload(q2)

\* Store failures: a project exists; its tasks, comments and files are
\* created, and delete_project runs with any one of its four deleting
\* store calls failing, or with none failing.
DeleteSteps == <<"del_tasks", "del_comments", "del_files", "del_project">>

DeleteProjectFailing(U) ==
  \E tok \in U.toks, id \in U.ids, k \in 0..Len(DeleteSteps) :
    Serve(U, "delete_project", tok,
          [NoArgs EXCEPT !.id = id, !.fail = IF k = 0 THEN "" ELSE DeleteSteps[k]])

UFail ==
  [UBase EXCEPT !.toks = {create_access_token(1)}, !.ws = {1}, !.ids = {1},
                !.reqids = {}, !.budget = FailDocs, !.acts = FailDocs]

NextFail ==
  \/ CreateTask(UFail)
  \/ CreateComment(UFail)
  \/ UploadFile(UFail)
  \/ DeleteProjectFailing(UFail)
  \/ Ack

SpecFail == InitDash /\ [][NextFail]_vars

\* the documents of collection coll that belong to project P
OfProject(coll, P) == {x \in coll : x.project_id = P}

\* the store after the first n deleting calls of delete_project(P)
AfterSteps(d, P, n) ==
  [d EXCEPT !.tasks = IF n >= 1 THEN @ \ OfProject(@, P) ELSE @,
            !.comments = IF n >= 2 THEN @ \ OfProject(@, P) ELSE @,
            !.files = IF n >= 3 THEN @ \ OfProject(@, P) ELSE @,
            !.projects = IF n >= 4 THEN {x \in @ : x.id # P} ELSE @]

\* C25: when the store call of step k of delete_project(P) fails, the
\* deletions of the steps before k persist, those from k on are not
\* applied and the project is still stored, the request fails, and a
\* repeated delete_project(P) completes the cascade.
C25_PartialDelete ==
  [][\A k \in 1..Len(DeleteSteps) :
       (/\ resp' # resp
        /\ resp'.op = "delete_project"
        /\ resp'.a.fail = DeleteSteps[k]
        /\ Resolves(db, resp'.tok)
        /\ Has(db.projects, resp'.a.id)
        /\ LET P == Get(db.projects, resp'.a.id)
               W == FindWs(db, P.workspace_id)
           IN W.id # 0 /\ (P.created_by = resp'.tok.sub \/ RoleOf(W, resp'.tok.sub) = "admin"))
       => LET P == resp'.a.id
              again == Run(World', NewRequest("delete_project", resp'.tok,
                                              [NoArgs EXCEPT !.id = P]))
          IN /\ resp'.status = 500
             /\ db' = AfterSteps(db, P, k - 1)
             /\ Has(db'.projects, P)
             /\ again.p.status = 200
             /\ ~Has(again.w.db.projects, P)
             /\ OfProject(again.w.db.tasks, P) = {}
             /\ OfProject(again.w.db.comments, P) = {}
             /\ OfProject(again.w.db.files, P) = {}]_vars

\* delete_project has failed at its third store call: the task and the
\* comment of the project are gone, its file and the project itself remain
C25_Witness ==
  /\ resp.op = "delete_project"
  /\ resp.a.fail = "del_files"
  /\ resp.status = 500
  /\ db.seq["tasks"] >= 1
  /\ db.seq["comments"] >= 1
  /\ OfProject(db.tasks, resp.a.id) = {}
  /\ OfProject(db.comments, resp.a.id) = {}
  /\ OfProject(db.files, resp.a.id) # {}
  /\ Has(db.projects, resp.a.id)

\* Creation against deletion under interleaving: a project and a task of it
\* exist; clients create tasks in the project and subtasks of the task
\* while others delete the project or the task.
BeginDeleteProject(U) ==
  \E tok \in U.toks, id \in U.ids : Begin(U, "delete_project", tok, [NoArgs EXCEPT !.id = id])

BeginCreateSubtask(U) ==
  \E tok \in U.toks, t \in U.ids : Begin(U, "create_subtask", tok, [NoArgs EXCEPT !.task = t])

UOrphan ==
  [UBase EXCEPT !.toks = {create_access_token(1)}, !.ws = {1}, !.ids = {1},
                !.budget = OrphanDocs, !.acts = OrphanDocs]

NextOrphan ==
  \/ BeginCreateTask(UOrphan)
  \/ BeginCreateSubtask(UOrphan)
  \/ BeginDeleteProject(UOrphan)
  \/ BeginDeleteTask(UOrphan)
  \/ StepProc(UOrphan)
  \/ Ack

SpecOrphan == InitUpdate /\ [][NextOrphan]_vars

\* the ids of the documents of a kind whose deletion has been logged, which
\* delete_project and delete_task do as their last step
Deleted(kind) ==
  {x.entity_id : x \in {y \in db.activities : y.action = "deleted" /\ y.entity_type = kind}}

\* C26: once the requests have completed, no stored task refers to a
\* project that delete_project has deleted and no stored subtask refers to
\* a task that delete_task has deleted, however the creating requests
\* interleaved with the deleting ones.
C26_NoOrphans ==
  procs = EmptyBag =>
    /\ \A t \in db.tasks : t.project_id \notin Deleted("project")
    /\ \A s \in db.subtasks : s.task_id \notin Deleted("task")

\* Invitations under interleaving: two accounts exist, and clients invite
\* the second to the first one's workspace, remove members and list the
\* workspaces while other requests are in flight.
URace == [UBase EXCEPT !.ws = {1}, !.emails = {"b@x.com"}, !.budget = PermDocs, !.acts = PermDocs]

NextRace ==
  \/ BeginInviteMember(URace)
  \/ BeginRemoveMember(URace)
  \/ StepProc(URace)
  \/ Ack

SpecRace == InitPerm /\ [][NextRace]_vars

\* the number of places at which uid stands in the list s
Occurrences(s, uid) == Cardinality({i \in DOMAIN s : s[i] = uid})

\* C27: in every reachable state the member_ids of a workspace hold no
\* user id more than once, concurrent invitations of the same user to the
\* same workspace included, so that the length of member_ids, which the
\* listings report as the member count, is the number of distinct members.
C27_DistinctMembers ==
  \A x \in db.workspaces :
    /\ \A uid \in 1..MaxUsers : Occurrences(x.member_ids, uid) <= 1
    /\ Len(x.member_ids) = Cardinality({x.member_ids[i] : i \in DOMAIN x.member_ids})

\* Owners under interleaving: two accounts exist, each owning the workspace
\* its signup created; clients create workspaces, invite either account
\* (the owner included) with a role below admin and remove either member
\* (the owner included) while other requests are in flight.
UOwner ==
  [UBase EXCEPT !.ws = {1}, !.roles = {"viewer"},
                !.toks = {create_access_token(1), create_access_token(2)},
                !.users = {1, 2}, !.budget = PermDocs, !.acts = PermDocs]

NextOwner ==
  \/ BeginCreateWorkspace(UOwner)
  \/ BeginInviteMember(UOwner)
  \/ BeginRemoveMember(UOwner)
  \/ StepProc(UOwner)
  \/ Ack

SpecOwner == InitPerm /\ [][NextOwner]_vars

\* C28: in every reachable state the owner of a workspace holds the role
\* admin in its member_roles: signup and create_workspace set it, and no
\* invite_member or remove_member, however interleaved, overwrites or
\* removes it.
C28_OwnerIsAdmin ==
  \A x \in db.workspaces : RoleOf(x, x.owner_id) = "admin"

\* the owner of a workspace has been invited to it with another role and
\* the request was turned down, while the second account is a member with
\* a role below admin and a workspace was created after the signups
C28_Witness ==
  /\ resp.op = "invite_member"
  /\ resp.status = 400
  /\ resp.a.role # "admin"
  /\ Has(db.workspaces, resp.a.ws)
  /\ Invited(resp.a.email) = {Get(db.workspaces, resp.a.ws).owner_id}
  /\ RoleOf(Get(db.workspaces, resp.a.ws), 2) \in {"member", "viewer"}
  /\ db.seq["workspaces"] > MaxUsers

\* Notifications: two accounts exist; either invites the other, creates and
\* updates projects and tasks assigned to itself, to the other or to both,
\* creates requests and changes their status, and mentions itself or the
\* other in comments.
UNotify ==
  [UBase EXCEPT !.ws = {1}, !.roles = {"admin"}, !.assigned = {{1}, {1, 2}},
                !.assignee = {1, 2}, !.budget = NotifyDocs, !.acts = NotifyDocs]

NextNotify ==
  \/ InviteMember(UNotify)
  \/ CreateProject(UNotify)
  \/ UpdateProject(UNotify)
  \/ CreateTask(UNotify)
  \/ UpdateTask(UNotify)
  \/ CreateRequest(UNotify)
  \/ UpdateRequestStatus(UNotify)
  \/ CreateComment(UNotify)
  \/ Ack

SpecNotify == InitPerm /\ [][NextNotify]_vars

\* the users that send_notification has addressed while request q was handled
Notified(q) == {q.notified[i] : i \in DOMAIN q.notified}

\* C29: no request creates a notification addressed to the user who made
\* it: the user_id of every notification inserted while a request is
\* handled differs from the authenticated caller's id.
C29_NoSelfNotification == resp.user \notin Notified(resp)

\* the first account has created a project assigned to both accounts, and
\* only the second one was notified
C29_Witness ==
  /\ resp.op = "create_project"
  /\ resp.status = 200
  /\ resp.user = 1
  /\ resp.a.assigned = {1, 2}
  /\ resp.notified = <<2>>

\* Updates whose body names another place: a project and a task of it
\* exist and requests are created; the bodies of update_project and
\* update_request carry any workspace_id, that of update_task any
\* project_id and parent_task_id, that of update_request any status.
UpdateProjectBody(U) ==
  \E tok \in U.toks, id \in U.ids, n \in U.newnames, as \in U.assigned,
     ws \in 1..MaxWorkspaces :
    Serve(U, "update_project", tok,
          [NoArgs EXCEPT !.id = id, !.name = n, !.assigned = as, !.ws = ws])

UpdateTaskBody(U) ==
  \E tok \in U.toks, id \in U.ids, n \in U.newnames, st \in U.statuses, m \in U.assignee,
     pr \in 1..MaxProjects, t \in 0..MaxTasks :
    Serve(U, "update_task", tok,
          [NoArgs EXCEPT !.id = id, !.name = n, !.status = st, !.member = m,
                         !.project = pr, !.task = t])

UpdateRequestBody(U) ==
  \E tok \in U.toks, id \in U.ids, n \in U.newnames, ws \in 1..MaxWorkspaces,
     st \in U.reqstatuses :
    Serve(U, "update_request", tok,
          [NoArgs EXCEPT !.id = id, !.name = n, !.ws = ws, !.status = st])

UFrame ==
  [UBase EXCEPT !.toks = {create_access_token(1)}, !.ws = {1}, !.ids = {1},
                !.assigned = {{}, {1}}, !.assignee = {0, 1},
                !.budget = FrameDocs, !.acts = FrameDocs]

NextFrame ==
  \/ CreateRequest(UFrame)
  \/ UpdateRequestStatus(UFrame)
  \/ UpdateProjectBody(UFrame)
  \/ UpdateTaskBody(UFrame)
  \/ UpdateTaskStatus(UFrame)
  \/ UpdateRequestBody(UFrame)
  \/ Ack

SpecFrame == InitUpdate /\ [][NextFrame]_vars

\* the updates, the collection each writes and the fields each must keep
UpdateOps == {"update_project", "update_task", "update_task_status", "update_request"}

UpdatedCollection(op) ==
  CASE op = "update_project" -> "projects"
    [] op \in {"update_task", "update_task_status"} -> "tasks"
    [] op = "update_request" -> "requests"

KeptFields(op) ==
  CASE op = "update_project" -> {"workspace_id", "created_by"}
    [] op \in {"update_task", "update_task_status"} ->
         {"project_id", "parent_task_id", "created_by"}
    [] op = "update_request" -> {"workspace_id", "status", "created_by"}

\* C30: an update never moves or re-attributes an entity: update_project
\* keeps the project's workspace_id and created_by, update_task and
\* update_task_status keep the task's project_id, parent_task_id and
\* created_by, update_request keeps the request's workspace_id, status and
\* created_by, whatever the body carries for them; no other document
\* changes, apart from activity records and notifications being added.
C30_UpdateFrame ==
  [][(resp' # resp /\ resp'.op \in UpdateOps) =>
       LET c == UpdatedCollection(resp'.op)
       IN /\ \A o \in DOMAIN db \ {c, "activities", "notifications"} : db'[o] = db[o]
          /\ db.activities \subseteq db'.activities
          /\ db.notifications \subseteq db'.notifications
          /\ {x.id : x \in db'[c]} = {x.id : x \in db[c]}
          /\ \A x \in db[c], y \in db'[c] :
               x.id = y.id =>
                 IF x.id = resp'.a.id
                 THEN \A f \in KeptFields(resp'.op) : y[f] = x[f]
                 ELSE y = x]_vars

\* an update_task whose body names another project and a parent task has
\* been answered 200: the task has the new title and is where it was
C30_Witness ==
  /\ resp.op = "update_task"
  /\ resp.status = 200
  /\ resp.a.project = 2
  /\ resp.a.task = 2
  /\ \E t \in db.tasks :
       /\ t.id = resp.a.id
       /\ t.title = resp.a.name
       /\ t.project_id = 1
       /\ t.parent_task_id = 0

====
